---- MODULE Spec2Model ----
(***************************************************************************)
(* MCP server connection / capability layer of aie-voice-agents-ws.        *)
(*                                                                         *)
(* Two versions of the MCPServerManager exist in the repository:           *)
(*   "v21"  servers/index.ts (older): three class-based providers          *)
(*          (WeatherMCPServer, AirQualityMCPServer, Context7MCPServer),    *)
(*          each owning a status record and a transport handle;            *)
(*   "v22"  servers/index.ts (current, module 06): one provider, context7, *)
(*          whose status is the module-level serverStatus of               *)
(*          context7-mcp-server.ts.                                        *)
(* The variable impl selects the version; it never changes.  The agent     *)
(* factory, the chat interface and the signal handlers of module 06 are    *)
(* built on v22.                                                           *)
(*                                                                         *)
(* Calls can overlap: the manager is a module-level singleton whose async  *)
(* methods are suspended at the connect() and close() they await, and      *)
(* nothing refuses or queues a call made meanwhile.  A step of the model   *)
(* is a call from its start to its first await (or to its return), or the  *)
(* resumption of a suspended call up to its next await (or to its return). *)
(* Every await suspends, also one whose promise has settled already: the   *)
(* rest of the call runs in a later microtask, after the caller's next     *)
(* statements.  Which of the continuations that are ready runs next is     *)
(* left open.  The v21 wrappers initializeXMCPServer and createXMCPServer   *)
(* await XMCPServer.initialize() and are resumed in a step of their own.   *)
(* mcpServerUtils, which only hands on what the manager returns (`return   *)
(* await mcpServerManager.initializeAll()`), is resumed together with the  *)
(* chat interface that awaits it: any number of other steps may run        *)
(* between the manager's return and that resumption.                       *)
(***************************************************************************)
EXTENDS Integers, Sequences, FiniteSets, TLC

VARIABLES
    impl,          \* which servers/index.ts the manager is
    rejects,       \* what the SDK rejects with in this run: an Error, null, or undefined
    now,           \* the clock read by new Date()
    server,        \* the MCPServerStdio a provider holds, named by the call that made it
                   \* (v21: this.server, 0 for null) or that connected it (v22: the
                   \* transport of context7Server, 0 for none)
    transports,    \* the transports of each provider that are open, named likewise
    serverStatus,  \* v21: XMCPServer.status; v22: serverStatus of context7-mcp-server.ts
    statuses,      \* MCPServerManager.statuses
    calls,         \* the calls in flight, each suspended at an await (of I/O, of
                   \* a provider's function, or of the manager by start()/cleanup())
    ret,           \* the call that returned last, with what it returned
    weatherApiKey,     \* config.weatherApiKey is set
    airQualityApiKey,  \* config.airQualityApiKey is set
    chat,          \* MCPChatInterface: position in start(), serverStatuses, chatSession
    chatAgent,     \* MCPChatInterface.agent
    agent,         \* the agent returned by the last direct createMCPAgent call
    proc,          \* the node process: running, or exited with a code
    tool,          \* the last execute() call of a direct tool and what it returned
    loop,          \* a chat loop: which one, where it stands, its history
    registry,      \* Context7ServerManager (module 05): servers, connectionStatus
    instr,         \* two calls of an instruction builder with one context
    voice          \* the voice page: its connected state, session.current, open sessions

mgrVars == <<impl, rejects, now, server, transports, serverStatus, statuses, calls, ret>>

appVars == <<weatherApiKey, airQualityApiKey, chat, chatAgent, agent, proc>>

\* state of the parts that are specified on their own (ToolSpec, ...)
sideVars == <<tool, loop, registry, instr, voice>>

\* Bound of the clock: every call takes one tick when it is made, Date values
\* are 1..MaxClock (0 stands for "never") and no call is made at MaxClock.
\* The time at which a call was made also names it.
MaxClock == 2

AllNames == {"weather", "airQuality", "context7"}

NoError == ""

\* error.message of a rejected connect()
ErrMsgs == {"spawn ENOENT"}

\* message of the TypeError raised by `error.message` when connect() or
\* close() rejects with null or with undefined
TypeErrorMsg ==
    IF rejects = "undefined"
    THEN "Cannot read properties of undefined (reading 'message')"
    ELSE "Cannot read properties of null (reading 'message')"

\* the `error` string of initializeXMCPServer when initialize() returned false
FailedToConnectMsg(name) ==
    CASE name = "weather"    -> "Failed to connect to weather MCP server"
      [] name = "airQuality" -> "Failed to connect to air quality MCP server"
      [] name = "context7"   -> "Failed to connect to Context7 MCP server"

\* the names single-provider calls are made with: the first registered
\* provider and, for the current manager, a name that is not registered
Targets == IF impl = "v21" THEN {"weather"} ELSE {"context7", "weather"}

\* this.initializers, in Map insertion order
RegisteredNames ==
    IF impl = "v21" THEN <<"weather", "airQuality", "context7">>
                    ELSE <<"context7">>

Registered == {RegisteredNames[i] : i \in 1..Len(RegisteredNames)}

\* a status object; lastConnected = 0 and lastError = NoError stand for
\* an absent or null field, defined = FALSE for a missing Map entry
Status(c, t, e) == [defined |-> TRUE, connected |-> c, lastConnected |-> t, lastError |-> e]

\* capabilities of getContext7ServerStatus() and of Context7MCPServer.status
Context7Capabilities == <<"resolve_library_id", "get_library_docs">>

\* status.capabilities of a class-based provider, set by its constructor
ClassCapabilities(name) ==
    CASE name = "weather"    -> <<"get_weather", "get_forecast">>
      [] name = "airQuality" -> <<"get_air_quality", "get_aqi_forecast">>
      [] name = "context7"   -> Context7Capabilities

\* an entry of MCPServerManager.statuses: a status object with the
\* capabilities stored in it (<<>>: no capabilities field)
Stored(st, capabilities) ==
    [defined |-> st.defined, connected |-> st.connected, lastConnected |-> st.lastConnected,
     lastError |-> st.lastError, capabilities |-> capabilities]

\* no entry in this.statuses
Undefined ==
    Stored([defined |-> FALSE, connected |-> FALSE, lastConnected |-> 0, lastError |-> NoError],
           <<>>)

InitialStatus == Status(FALSE, 0, NoError)

\* outcomes of MCPServerStdio.connect() (the SDK is opaque): it resolves, or
\* rejects -- with an Error, with null or with undefined, one of them
\* throughout a run.  A connect that never settles is the action
\* ConnectHangs.
ConnectOutcomes ==
    {[kind |-> "ok", msg |-> NoError]}
        \cup (IF rejects = "Error"
              THEN {[kind |-> "reject", msg |-> m] : m \in ErrMsgs}
              ELSE {[kind |-> "rejectNull", msg |-> NoError]})

\* outcomes of MCPServerStdio.close(): it resolves, or rejects likewise
CloseOutcomes == {"ok", IF rejects = "Error" THEN "throw" ELSE "throwNull"}

Tick(t) == t + 1

----------------------------------------------------------------------------
(* The providers' own connect and disconnect code                          *)

Result(threw, connected, error) == [threw |-> threw, connected |-> connected, error |-> error]

NoRes == Result(FALSE, FALSE, NoError)

\* XMCPServer.initialize() after `await this.server.connect()` settled as o:
\* the status record it leaves
ClassInitialize(st, o, t) ==
    CASE o.kind = "ok"         -> Status(TRUE, t, NoError)
      [] o.kind = "reject"     -> [st EXCEPT !.connected = FALSE, !.lastError = o.msg]
      [] o.kind = "rejectNull" -> [st EXCEPT !.connected = FALSE]

\* initializeXMCPServer() after connect() settled as o: {connected, error?};
\* it never throws
InitializeClassServer(name, o) ==
    CASE o.kind = "ok"         -> Result(FALSE, TRUE, NoError)
      [] o.kind = "reject"     -> Result(FALSE, FALSE, FailedToConnectMsg(name))
      [] o.kind = "rejectNull" -> Result(FALSE, FALSE, TypeErrorMsg)

\* initializeContext7Server(): `if (!serverStatus.connected)` -- connect() is
\* not called when the flag is set; XMCPServer.initialize() has no such test
SkipsConnect(st) == impl = "v22" /\ st.connected

\* initializeContext7Server() after `await context7Server.connect()` settled
\* as o: the serverStatus it leaves
Context7Initialize(st, o, t) ==
    CASE o.kind = "ok"         -> Status(TRUE, t, NoError)
      [] o.kind = "reject"     -> [st EXCEPT !.connected = FALSE, !.lastError = o.msg]
      [] o.kind = "rejectNull" -> [st EXCEPT !.connected = FALSE]

\* initializeContext7Server() after connect() settled as o: its result; the
\* catch block itself throws when the rejection value has no .message
InitializeContext7Server(o) ==
    CASE o.kind = "ok"         -> Result(FALSE, TRUE, NoError)
      [] o.kind = "reject"     -> Result(FALSE, FALSE, o.msg)
      [] o.kind = "rejectNull" -> Result(TRUE, FALSE, TypeErrorMsg)

\* initializeContext7Server() when the connect is skipped
AlreadyConnected == Result(FALSE, TRUE, NoError)

\* the result of `await initializer()` for the registered provider name
Initializer(name, o) ==
    IF impl = "v21" THEN InitializeClassServer(name, o)
                    ELSE InitializeContext7Server(o)

OwnStatusAfter(st, o, t) ==
    IF impl = "v21" THEN ClassInitialize(st, o, t)
                    ELSE Context7Initialize(st, o, t)

\* the state the calls work on: the providers' handles, transports and
\* status records and the manager's table
Heap == [server |-> server, transports |-> transports,
         serverStatus |-> serverStatus, statuses |-> statuses]

\* the MCPServerStdio the provider holds has an open transport
HeldOpen(h, name) == h.server[name] \in h.transports[name]

OpenTransports(name) == Cardinality(transports[name])

\* connect() called on an MCPServerStdio that is already connected (the SDK
\* is opaque): the transport is reused, or a new one replaces it and the old
\* one stays open
ReconnectOutcomes(name) ==
    IF impl = "v22" /\ HeldOpen(Heap, name)
    THEN {"reused", "replaced"}
    ELSE {"reused"}

\* XMCPServer.initialize() up to its await: `this.server = new
\* MCPServerStdio(...)` drops the instance held so far without closing it.
\* initializeContext7Server() connects the one context7Server instance.
NewInstance(h, name, id) ==
    IF impl = "v21" THEN [h EXCEPT !.server[name] = id] ELSE h

\* the provider after the connect() awaited by call id settled as o
Connected(h, name, id, o, r, t) ==
    LET opens == o.kind = "ok" /\ (impl = "v21" \/ ~HeldOpen(h, name) \/ r = "replaced")
    IN  [h EXCEPT !.serverStatus[name] = OwnStatusAfter(@, o, t),
                  !.transports[name] = IF opens THEN @ \cup {id} ELSE @,
                  !.server[name] = IF opens /\ impl = "v22" THEN id ELSE @]

\* the connect() awaited by createXMCPServer() call id settled as o: the
\* transport belongs to the new instance, whose status record and handle are
\* its own; the exported instance of the provider is not touched
Created(h, name, id, o) ==
    [h EXCEPT !.transports[name] = IF o.kind = "ok" THEN @ \cup {id} ELSE @]

\* does a disconnect call close(): `if (this.server)` (v21),
\* `if (serverStatus.connected && context7Server)` (v22)
CloseAttempted(h, name) ==
    IF impl = "v21" THEN h.server[name] # 0 ELSE h.serverStatus[name].connected

\* variant: connected is cleared before close() is awaited
OwnStatusAfterDisconnectEager(st, closed) == [st EXCEPT !.connected = FALSE]

\* the provider's status after `await close()`: connected is cleared only
\* when close() resolved
OwnStatusAfterDisconnect(st, closed) ==
    IF closed THEN [st EXCEPT !.connected = FALSE] ELSE st

\* the provider after the close() awaited by a disconnect settled as c;
\* target is the instance close() was called on.  XMCPServer.disconnect()
\* then sets this.server = null, whichever instance it holds by then.
Closed(h, name, target, c) ==
    IF c # "ok"
    THEN [h EXCEPT !.serverStatus[name] = OwnStatusAfterDisconnect(@, FALSE)]
    ELSE [h EXCEPT !.transports[name] = @ \ {IF impl = "v21" THEN target ELSE h.server[name]},
                   !.server[name] = 0,
                   !.serverStatus[name] = OwnStatusAfterDisconnect(@, TRUE)]

\* a disconnect that finds nothing to close: XMCPServer.disconnect() still
\* writes status.connected = false, disconnectContext7Server() writes nothing
NotClosed(h, name) ==
    IF impl = "v21" THEN [h EXCEPT !.serverStatus[name].connected = FALSE] ELSE h

\* what XMCPServer.disconnect() / disconnectContext7Server() hands back when
\* close() settled as c: true, false, or a rejection because its catch block
\* reads error.message of a null/undefined rejection
DisconnectResult(c) ==
    CASE c = "ok"        -> "true"
      [] c = "throw"     -> "false"
      [] c = "throwNull" -> "threw"

----------------------------------------------------------------------------
(* MCPServerManager                                                        *)

\* the status the manager stores after `await initializer()` returned res;
\* own is the provider's status at that moment.  The catch block stores no
\* capabilities; the try block stores those of the provider, whether or not
\* the attempt connected
ManagerStatus(name, res, own, t) ==
    IF res.threw
    THEN Stored(Status(FALSE, 0, res.error), <<>>)
    ELSE IF impl = "v21"
         THEN Stored(Status(res.connected, IF res.connected THEN t ELSE 0, res.error),
                     ClassCapabilities(name))
         ELSE IF name = "context7"
              THEN Stored(Status(own.connected, own.lastConnected, own.lastError),
                          Context7Capabilities)
              ELSE Stored(Status(res.connected, 0, NoError), <<>>)

\* errors[name] after the attempt
ErrorEntry(res) == IF res.threw \/ ~res.connected THEN res.error ELSE NoError

\* variant: only an initializer that threw is listed in failed
ListedFailedOnThrow(res) == res.threw

\* initializeAll(): failed.push(name), in the else branch and in the catch
ListedFailed(res) == res.threw \/ ~res.connected

\* initializeAll(): connected.push(name)
ListedConnected(res) == ~res.threw /\ res.connected

\* the loop of initializeAll goes on to the next initializer whatever happened
NextIndex(idx, res) == idx + 1

\* variant: no try/catch around the initializer call
EscapesUncaught(res) == res.threw

\* the try/catch around one initializer call: nothing escapes the loop body
Escapes(res) == FALSE

\* this.statuses.set(name, {...this.statuses.get(name)!, connected: false}):
\* the other fields of the entry, its capabilities included, are kept
ManagerStatusAfterDisconnect(st) ==
    Stored(Status(FALSE, st.lastConnected, st.lastError), st.capabilities)

\* a call of an async function: who made it, where it is suspended (the
\* provider awaits "connect" or "close", or a connect that will never
\* settle: "hung"; the manager awaits the provider's function, which has
\* returned res or success: "run"; the chat interface awaits the manager,
\* which has returned: "chat") or that it has returned ("done"), the provider
\* it is working on, the MCPServerStdio its close() was called on, and its
\* local variables.  overlapped records whether any other call ran while
\* this one was in flight.
Call(id, by, op, arg) ==
    [id |-> id, by |-> by, op |-> op, arg |-> arg, pc |-> "run", val |-> "pending",
     idx |-> 1, name |-> arg, target |-> 0,
     res |-> NoRes, kind |-> "", success |-> "",
     connected |-> <<>>, disconnected |-> <<>>, failed |-> <<>>,
     errors |-> [n \in AllNames |-> NoError], log |-> <<>>,
     overlapped |-> calls # {}]

\* a call and the state it leaves
Step(h, c) == [h |-> h, c |-> c]

\* the call returns val (or throws, val = "threw"); what stays of it is what
\* it hands to its caller
Return(c, val) ==
    [c EXCEPT !.pc = "done", !.val = val, !.idx = 0, !.name = "", !.target = 0,
              !.res = NoRes, !.kind = "", !.success = ""]

NoCall == [Return(Call(0, "none", "none", ""), "none") EXCEPT !.overlapped = FALSE]

\* initializeAll(): the rest of one iteration after `await initializer()`
\* gave res
InitializeAllApply(h, c, name, res, kind, t) ==
    IF Escapes(res)
    THEN Step(h, Return(c, "threw"))
    ELSE Step([h EXCEPT !.statuses[name] = ManagerStatus(name, res, h.serverStatus[name], t)],
              [c EXCEPT
                  !.idx = NextIndex(@, res),
                  !.connected = IF ListedConnected(res) THEN Append(@, name) ELSE @,
                  !.failed = IF ListedFailed(res) THEN Append(@, name) ELSE @,
                  !.errors[name] = ErrorEntry(res),
                  !.log = Append(@, [name |-> name, kind |-> kind])])

\* the manager is suspended at `await initializer()`, whose promise has
\* settled with res
AwaitsInitializer(c, res, kind) == [c EXCEPT !.pc = "run", !.res = res, !.kind = kind]

\* initializeAll(): `for (const [name, initializer] of this.initializers)`
\* at iteration c.idx, up to `await initializer()`: the initializer is
\* called and returns at once or awaits connect(); after the last iteration
\* the result is returned
InitializeAllLoop(h, c) ==
    IF c.val = "threw"
    THEN Step(h, c)
    ELSE IF c.idx > Len(RegisteredNames)
    THEN Step(h, Return(c, "result"))
    ELSE LET name == RegisteredNames[c.idx]
         IN  IF SkipsConnect(h.serverStatus[name])
             THEN Step(h, AwaitsInitializer([c EXCEPT !.name = name], AlreadyConnected, "already"))
             ELSE Step(NewInstance(h, name, c.id), [c EXCEPT !.pc = "connect", !.name = name])

\* initializeServer(serverName): after `await initializer()` gave res
InitializeServerApply(h, c, res, t) ==
    Step([h EXCEPT !.statuses[c.arg] = ManagerStatus(c.arg, res, h.serverStatus[c.arg], t)],
         Return(c, IF ~res.threw /\ res.connected THEN "true" ELSE "false"))

\* initializeServer(serverName): up to `await initializer()`
InitializeServerBegin(h, c) ==
    IF c.arg \notin Registered
    THEN Step(h, Return(c, "threw"))
    ELSE IF SkipsConnect(h.serverStatus[c.arg])
    THEN Step(h, AwaitsInitializer(c, AlreadyConnected, "already"))
    ELSE Step(NewInstance(h, c.arg, c.id), [c EXCEPT !.pc = "connect"])

\* the initializer called without the manager: what it hands back
InitializeApply(h, c, res) ==
    Step(h, Return(c, IF res.threw THEN "threw" ELSE IF res.connected THEN "true" ELSE "false"))

\* the initializer called without the manager: it returns at once or awaits
\* connect()
InitializeBegin(h, c) ==
    IF SkipsConnect(h.serverStatus[c.arg])
    THEN InitializeApply(h, c, AlreadyConnected)
    ELSE Step(NewInstance(h, c.arg, c.id), [c EXCEPT !.pc = "connect"])

\* createXMCPServer() / initializeXMCPServer() is suspended at
\* `await xServer.initialize()`, whose promise has settled
AwaitsClassInitialize(c, res, kind) == [c EXCEPT !.pc = "wrap", !.res = res, !.kind = kind]

\* the function that awaited connect() resumes after it settled and returns
\* res.  XMCPServer.initialize() (v21) returns to the exported function
\* around it, which resumes later; initializeContext7Server() (v22) returns
\* to its caller, or to the manager that awaits it
AfterConnect(h, c, res, kind) ==
    IF impl = "v21"
    THEN Step(h, AwaitsClassInitialize(c, res, kind))
    ELSE IF c.op = "initialize"
         THEN InitializeApply(h, c, res)
         ELSE Step(h, AwaitsInitializer(c, res, kind))

\* createXMCPServer(): what it hands back after `await server.initialize()`;
\* it has no try/catch, and initialize() rejects when its catch block reads
\* error.message of a null/undefined rejection
CreateResult(kind) == IF kind = "rejectNull" THEN "threw" ELSE "instance"

\* the exported function of a class-based provider resumes after
\* `await xServer.initialize()`: createXMCPServer() and a directly called
\* initializeXMCPServer() return to their caller, an initializer called by
\* the manager returns to the manager
AfterClassInitialize(h, c) ==
    CASE c.op = "create"     -> Step(h, Return(c, CreateResult(c.kind)))
      [] c.op = "initialize" -> InitializeApply(h, c, c.res)
      [] OTHER               -> Step(h, AwaitsInitializer(c, c.res, c.kind))

\* createXMCPServer() up to the connect() awaited by initialize(): a new
\* XMCPServer with a status record and an MCPServerStdio of its own
CreateBegin(h, c) == Step(h, [c EXCEPT !.pc = "connect", !.target = c.id])

\* disconnectAll(): the rest of one iteration after the provider's
\* disconnect gave success ("true", "false") or rejected ("threw")
DisconnectAllApply(h, c, name, success) ==
    Step(IF success = "true"
         THEN [h EXCEPT !.statuses[name] = ManagerStatusAfterDisconnect(@)]
         ELSE h,
         [c EXCEPT
             !.idx = @ + 1,
             !.disconnected = IF success = "true" THEN Append(@, name) ELSE @,
             !.failed = IF success # "true" THEN Append(@, name) ELSE @,
             !.errors[name] = IF success = "threw" THEN TypeErrorMsg ELSE @])

\* the manager is suspended at the await of the provider's disconnect, whose
\* promise has settled with success
AwaitsDisconnect(c, success) == [c EXCEPT !.pc = "run", !.success = success]

\* disconnectAll(): `for (const [name] of this.servers)` at iteration c.idx,
\* up to the await of the provider's disconnect, which returns at once or
\* awaits close(); after the last iteration the result is returned
DisconnectAllLoop(h, c) ==
    IF c.idx > Len(RegisteredNames)
    THEN Step(h, Return(c, "result"))
    ELSE LET name == RegisteredNames[c.idx]
         IN  IF CloseAttempted(h, name)
             THEN Step(h, [c EXCEPT !.pc = "close", !.name = name, !.target = h.server[name]])
             ELSE Step(NotClosed(h, name),
                       AwaitsDisconnect([c EXCEPT !.name = name, !.target = 0], "true"))

\* disconnectServer(serverName): after the provider's disconnect gave success
DisconnectServerApply(h, c, success) ==
    Step(IF success = "true"
         THEN [h EXCEPT !.statuses[c.arg] = ManagerStatusAfterDisconnect(@)]
         ELSE h,
         Return(c, IF success = "true" THEN "true" ELSE "false"))

\* disconnectServer(serverName): up to the await of the provider's disconnect
DisconnectServerBegin(h, c) ==
    IF c.arg \notin Registered
    THEN Step(h, Return(c, "threw"))
    ELSE IF CloseAttempted(h, c.arg)
    THEN Step(h, [c EXCEPT !.pc = "close", !.target = h.server[c.arg]])
    ELSE Step(NotClosed(h, c.arg), AwaitsDisconnect(c, "true"))

\* the provider's disconnect called without the manager
DisconnectBegin(h, c) ==
    IF CloseAttempted(h, c.arg)
    THEN Step(h, [c EXCEPT !.pc = "close", !.target = h.server[c.arg]])
    ELSE Step(NotClosed(h, c.arg), Return(c, "true"))

\* the provider's disconnect resumes after its close() settled and returns
\* success: to its caller, or to the manager that awaits it
AfterClose(h, c, success) ==
    IF c.op = "disconnect"
    THEN Step(h, Return(c, success))
    ELSE Step(h, AwaitsDisconnect(c, success))

\* the manager resumes after its await: the rest of the iteration and the
\* loop up to its next await, or the rest of the call
AfterAwait(h, c, t) ==
    CASE c.op = "initializeAll" ->
            LET k == InitializeAllApply(h, c, c.name, c.res, c.kind, t)
            IN  InitializeAllLoop(k.h, k.c)
      [] c.op = "initializeServer" -> InitializeServerApply(h, c, c.res, t)
      [] c.op = "disconnectAll" ->
            LET k == DisconnectAllApply(h, c, c.name, c.success)
            IN  DisconnectAllLoop(k.h, k.c)
      [] c.op = "disconnectServer" -> DisconnectServerApply(h, c, c.success)

\* variant: the error handler reconnects the server
AfterConnectionErrorReconnect(st, m) == [st EXCEPT !.connected = TRUE, !.lastError = m]

\* serverStatus after handleContext7ConnectionError: no reconnection is tried
AfterConnectionError(st, m) == [st EXCEPT !.connected = FALSE, !.lastError = m]

\* getServerStatus(serverName): this.statuses.get(serverName)
getServerStatus(name) == statuses[name]

\* getAllServerStatuses(): the entries of this.statuses
getAllServerStatuses == [n \in {m \in AllNames : statuses[m].defined} |-> statuses[n]]

\* getConnectedServers(): the names whose entry of this.statuses is connected
\* (as a set; the code returns them in the order of this.statuses)
getConnectedServers == {n \in AllNames : statuses[n].defined /\ statuses[n].connected}

\* isServerConnected(serverName)
isServerConnected(name) ==
    IF impl = "v22" /\ name = "context7"
    THEN serverStatus["context7"].connected
    ELSE statuses[name].defined /\ statuses[name].connected

mgrInit ==
    /\ impl \in {"v21", "v22"}
    /\ rejects \in {"Error", "null", "undefined"}
    /\ now = 0
    /\ server = [n \in AllNames |-> 0]
    /\ transports = [n \in AllNames |-> {}]
    /\ serverStatus = [n \in AllNames |-> InitialStatus]
    /\ statuses = [n \in AllNames |-> Undefined]
    /\ calls = {}
    /\ ret = NoCall

----------------------------------------------------------------------------
(* Agent factory, instructions and tools of module 06 (built on v22)       *)

InstructionTypes == {"default", "weather", "airQuality", "documentation", "environmental", "chat"}

Caps(w, a, d) == [weather |-> w, airQuality |-> a, documentation |-> d]

\* an `mcpServers` option: each field is "true", "false" or "undefined";
\* given = FALSE when the option is not passed at all
McpOption(w, a, d) == [given |-> TRUE, weather |-> w, airQuality |-> a, documentation |-> d]

NotGiven == [given |-> FALSE, weather |-> "undefined", airQuality |-> "undefined",
             documentation |-> "undefined"]

Options(m, it) == [mcpServers |-> m, instructionType |-> it]

Str(b) == IF b THEN "true" ELSE "false"

\* the options the repository's callers pass: create()/createMCPAgent({}),
\* the five specialised creators, a caller leaving every flag to the
\* environment, and explicit flags as the chat interface passes them
DirectOptions ==
    { Options(NotGiven, "default"),
      Options(McpOption("true", "false", "false"), "weather"),
      Options(McpOption("false", "true", "false"), "airQuality"),
      Options(McpOption("false", "false", "true"), "documentation"),
      Options(McpOption("true", "true", "false"), "environmental"),
      Options(McpOption("false", "false", "false"), "chat"),
      Options(McpOption("undefined", "undefined", "undefined"), "default") }
    \cup { Options(McpOption("true", "true", Str(d)), "default") : d \in BOOLEAN }

\* DEFAULT_MCP_AGENT_OPTIONS.mcpServers
DefaultMcpServers == McpOption("true", "true", "true")

\* createEnvironmentConfig().mcpServers
createEnvironmentConfig == Caps(weatherApiKey, airQualityApiKey, TRUE)

\* a ?? b
Nullish(v, d) == IF v = "undefined" THEN d ELSE v = "true"

\* enabledServers of createMCPAgent
EnabledServers(options) ==
    LET m == IF options.mcpServers.given THEN options.mcpServers ELSE DefaultMcpServers
        env == createEnvironmentConfig
    IN  Caps(Nullish(m.weather, env.weather),
             Nullish(m.airQuality, env.airQuality),
             Nullish(m.documentation, env.documentation))

\* isContext7ServerConnected()
isContext7ServerConnected == serverStatus["context7"].connected

\* getToolsForCapabilities(capabilities)
getToolsForCapabilities(capabilities) ==
    (IF capabilities.weather THEN <<"weatherTool">> ELSE <<>>)
        \o (IF capabilities.airQuality THEN <<"airQualityTool">> ELSE <<>>)

\* createMCPAgent(options): the Agent it constructs
createMCPAgent(options) ==
    LET enabledServers == EnabledServers(options)
    IN  [built |-> TRUE,
         mcpServers |-> IF enabledServers.documentation /\ isContext7ServerConnected
                        THEN <<"context7Server">> ELSE <<>>,
         tools |-> getToolsForCapabilities(enabledServers),
         capabilities |-> enabledServers,
         instructionType |-> options.instructionType]

NoAgent == [built |-> FALSE, mcpServers |-> <<>>, tools |-> <<>>,
            capabilities |-> Caps(FALSE, FALSE, FALSE), instructionType |-> "default"]

\* an MCPServerStatus of context.mcpServers: capabilities is the list of the
\* status (<<>> when the field is absent or empty); lastConnected = 0 and
\* lastError = NoError stand for an absent or null field
ServerStatus(c, caps, t, e) ==
    [connected |-> c, capabilities |-> caps, lastConnected |-> t, lastError |-> e]

\* context.mcpServers
McpServers(w, a, c) == [weather |-> w, airQuality |-> a, context7 |-> c]

\* `${status.capabilities?.join(', ') || fallback}`
CapabilitiesText(status, fallback) ==
    IF status.capabilities = <<>> THEN <<fallback>> ELSE status.capabilities

\* variant: the text carries the time at which it was built
buildInstructionsStamped(capabilities, mcpServers) ==
    <<"intro">>
        \o (IF capabilities.weather /\ mcpServers.weather.connected
            THEN <<"weatherServer">> \o CapabilitiesText(mcpServers.weather, "weather data")
            ELSE <<>>)
        \o (IF capabilities.airQuality /\ mcpServers.airQuality.connected
            THEN <<"airQualityServer">> \o CapabilitiesText(mcpServers.airQuality, "air quality data")
            ELSE <<>>)
        \o (IF capabilities.documentation /\ mcpServers.context7.connected
            THEN <<"context7Server">> \o CapabilitiesText(mcpServers.context7, "documentation lookup")
            ELSE <<>>)
        \o <<"yourCapabilities">>
        \o (IF capabilities.weather /\ mcpServers.weather.connected THEN <<"weatherQueries">> ELSE <<>>)
        \o (IF capabilities.airQuality /\ mcpServers.airQuality.connected THEN <<"airQualityQueries">> ELSE <<>>)
        \o (IF capabilities.documentation /\ mcpServers.context7.connected THEN <<"documentationQueries">> ELSE <<>>)
        \o <<"responseGuidelines", ToString(now)>>

\* buildInstructions(context): the blocks of the text, in order; a server
\* block is followed by the capabilities it prints.  context.userQuery is
\* destructured and not used.
buildInstructions(capabilities, mcpServers) ==
    <<"intro">>
        \o (IF capabilities.weather /\ mcpServers.weather.connected
            THEN <<"weatherServer">> \o CapabilitiesText(mcpServers.weather, "weather data")
            ELSE <<>>)
        \o (IF capabilities.airQuality /\ mcpServers.airQuality.connected
            THEN <<"airQualityServer">> \o CapabilitiesText(mcpServers.airQuality, "air quality data")
            ELSE <<>>)
        \o (IF capabilities.documentation /\ mcpServers.context7.connected
            THEN <<"context7Server">> \o CapabilitiesText(mcpServers.context7, "documentation lookup")
            ELSE <<>>)
        \o <<"yourCapabilities">>
        \o (IF capabilities.weather /\ mcpServers.weather.connected THEN <<"weatherQueries">> ELSE <<>>)
        \o (IF capabilities.airQuality /\ mcpServers.airQuality.connected THEN <<"airQualityQueries">> ELSE <<>>)
        \o (IF capabilities.documentation /\ mcpServers.context7.connected THEN <<"documentationQueries">> ELSE <<>>)
        \o <<"responseGuidelines">>

\* instructionBuilders[type](context)
instructionBuilders(type, capabilities, mcpServers) ==
    CASE type = "weather"       -> buildInstructions(Caps(TRUE, FALSE, FALSE), mcpServers)
      [] type = "airQuality"    -> buildInstructions(Caps(FALSE, TRUE, FALSE), mcpServers)
      [] type = "documentation" -> buildInstructions(Caps(FALSE, FALSE, TRUE), mcpServers)
      [] type = "environmental" -> buildInstructions(Caps(TRUE, TRUE, FALSE), mcpServers)
      [] type = "chat"          -> <<"generalChat">>
      [] OTHER                  -> buildInstructions(capabilities, mcpServers)

\* JSON.stringify of one status: the fields that are present
StatusJSON(st) ==
    <<Str(st.connected)>>
        \o st.capabilities
        \o (IF st.lastConnected # 0 THEN <<ToString(st.lastConnected)>> ELSE <<>>)
        \o (IF st.lastError # NoError THEN <<st.lastError>> ELSE <<>>)

\* buildDebugInstructions(context): the default text, then the statuses,
\* the capability set and `context.userQuery || 'N/A'`
buildDebugInstructions(capabilities, mcpServers, userQuery) ==
    buildInstructions(capabilities, mcpServers)
        \o <<"debugMode">>
        \o StatusJSON(mcpServers.weather)
        \o StatusJSON(mcpServers.airQuality)
        \o StatusJSON(mcpServers.context7)
        \o <<Str(capabilities.weather), Str(capabilities.airQuality),
             Str(capabilities.documentation)>>
        \o <<IF userQuery = "" THEN "N/A" ELSE userQuery>>

\* the threshold of `queryAnalysis.confidence < 0.8`; confidences are counted
\* in thousandths
ConfidenceThreshold == 800

\* a queryAnalysis argument; given = FALSE when none is passed, location and
\* libraryName are "" when absent
QueryAnalysis(type, confidence, location, libraryName) ==
    [given |-> TRUE, type |-> type, confidence |-> confidence,
     location |-> location, libraryName |-> libraryName]

NoAnalysis == [QueryAnalysis("general", ConfidenceThreshold, "", "") EXCEPT !.given = FALSE]

\* (confidence * 100).toFixed(1)
ToFixed1(confidence) ==
    <<ToString(confidence \div 10), ".", ToString(confidence % 10)>>

\* builderType of buildContextualInstructions
BuilderType(queryAnalysis) ==
    CASE queryAnalysis.type = "weather"       -> "weather"
      [] queryAnalysis.type = "air_quality"   -> "airQuality"
      [] queryAnalysis.type = "documentation" -> "documentation"
      [] OTHER                                -> "default"

\* buildContextualInstructions(context, queryAnalysis)
buildContextualInstructions(capabilities, mcpServers, queryAnalysis) ==
    IF ~queryAnalysis.given
    THEN buildInstructions(capabilities, mcpServers)
    ELSE instructionBuilders(BuilderType(queryAnalysis), capabilities, mcpServers)
            \o (IF queryAnalysis.location # ""
                THEN <<"locationContext", queryAnalysis.location>> ELSE <<>>)
            \o (IF queryAnalysis.libraryName # ""
                THEN <<"libraryContext", queryAnalysis.libraryName>> ELSE <<>>)
            \o (IF queryAnalysis.confidence < ConfidenceThreshold
                THEN <<"queryInterpretation">> \o ToFixed1(queryAnalysis.confidence)
                ELSE <<>>)

\* the mcpServers of the context the `instructions` callback builds:
\* the two direct tools by their flags, context7 as the entry
\* getAllServerStatuses() returns for it (with the capabilities stored in
\* it, connected or not) or, without an entry, as not connected
CallbackServers(a) ==
    McpServers(ServerStatus(a.capabilities.weather, <<>>, 0, NoError),
               ServerStatus(a.capabilities.airQuality, <<>>, 0, NoError),
               IF statuses["context7"].defined
               THEN ServerStatus(statuses["context7"].connected,
                                 statuses["context7"].capabilities,
                                 statuses["context7"].lastConnected,
                                 statuses["context7"].lastError)
               ELSE ServerStatus(FALSE, <<>>, 0, NoError))

\* the `instructions` callback of the agent, evaluated now
AgentInstructions(a) ==
    instructionBuilders(a.instructionType, a.capabilities, CallbackServers(a))

DomainSections == {"weatherServer", "airQualityServer", "context7Server",
                   "weatherQueries", "airQualityQueries", "documentationQueries"}

Sections(text) == {text[i] : i \in 1..Len(text)}

Elems(seq) == {seq[i] : i \in 1..Len(seq)}

----------------------------------------------------------------------------
(* MCPChatInterface, the process, and the calls in flight                  *)

ChatNew == [pc |-> "new", serverStatuses |-> [n \in AllNames |-> Undefined],
            mcpServersConnected |-> <<>>]

\* the options start() passes to mcpAgentFactory.create
ChatOptions(initResult) ==
    Options(McpOption("true", "true", Str("context7" \in Elems(initResult.connected))), "default")

\* start() after `await mcpServerUtils.initializeAllServers()` gave the
\* result of call c: the statuses are read and the agent is created with
\* the state of that moment; nothing is awaited up to the chat loop
ChatCreateAgent(c) ==
    /\ chat' = [pc |-> "chatting", serverStatuses |-> statuses,
                mcpServersConnected |-> c.connected]
    /\ chatAgent' = createMCPAgent(ChatOptions(c))

\* the chat interface when it makes call c: start() is suspended at
\* `await mcpServerUtils.initializeAllServers()`, cleanup() at
\* `await mcpServerUtils.disconnectAllServers()`
ChatAfter(c) ==
    IF c.by # "chat"
    THEN UNCHANGED <<chat, chatAgent>>
    ELSE /\ chat' = [chat EXCEPT !.pc = IF c.op = "initializeAll" THEN "initializing"
                                                                 ELSE "cleanup"]
         /\ UNCHANGED chatAgent

\* what is in flight of call c after a step: the call itself while it is
\* suspended, and after its return the continuation of the chat interface
\* that awaits it
InFlight(c) ==
    IF c.pc # "done" THEN {c}
    ELSE IF c.by = "chat" THEN {[c EXCEPT !.pc = "chat"]}
    ELSE {}

\* the writes of a step
Write(h) ==
    /\ server' = h.server
    /\ transports' = h.transports
    /\ serverStatus' = h.serverStatus
    /\ statuses' = h.statuses

\* a call is made at time t and runs up to its first await (or to its return,
\* for a function that awaits nothing)
Begin(k, t) ==
    /\ now' = t
    /\ Write(k.h)
    /\ calls' = {[d EXCEPT !.overlapped = TRUE] : d \in calls} \cup InFlight(k.c)
    /\ ret' = IF k.c.pc = "done" THEN k.c ELSE ret
    /\ UNCHANGED <<impl, rejects, weatherApiKey, airQualityApiKey, agent, proc>>
    /\ ChatAfter(k.c)

\* the call old resumes after its await and runs up to its next await, or to
\* its return
Resume(k, old) ==
    /\ Write(k.h)
    /\ calls' = (calls \ {old}) \cup InFlight(k.c)
    /\ ret' = IF k.c.pc = "done" THEN k.c ELSE ret
    /\ UNCHANGED <<impl, rejects, now, weatherApiKey, airQualityApiKey, agent, proc>>
    /\ UNCHANGED <<chat, chatAgent>>

\* a call can be made: the process is alive (and the clock is within its bound)
CanCall == proc.state = "running" /\ now < MaxClock

\* initializeAll() called by `by`
BeginInitializeAll(by) ==
    Begin(InitializeAllLoop(Heap, [Call(Tick(now), by, "initializeAll", "") EXCEPT !.name = ""]),
          Tick(now))

\* mcpServerManager.initializeAll() / mcpServerUtils.initializeAllServers()
InitializeAll ==
    /\ CanCall
    /\ BeginInitializeAll("caller")
    /\ UNCHANGED sideVars

\* mcpServerManager.initializeServer(serverName)
InitializeServer(name) ==
    /\ CanCall
    /\ Begin(InitializeServerBegin(Heap, Call(Tick(now), "caller", "initializeServer", name)),
             Tick(now))
    /\ UNCHANGED sideVars

\* the exported initializer of a provider called without the manager:
\* initializeContext7Server() / serverInitializers.context7() (v22),
\* initializeXMCPServer() (v21)
Initialize(name) ==
    /\ CanCall
    /\ Begin(InitializeBegin(Heap, Call(Tick(now), "caller", "initialize", name)), Tick(now))
    /\ UNCHANGED sideVars

\* an awaited connect() settles and the initializer that awaits it resumes
ConnectResumes ==
    /\ proc.state = "running"
    /\ \E c \in calls :
         /\ c.pc = "connect"
         /\ \E o \in ConnectOutcomes, r \in ReconnectOutcomes(c.name) :
              Resume(AfterConnect(IF c.op = "create"
                                  THEN Created(Heap, c.name, c.id, o)
                                  ELSE Connected(Heap, c.name, c.id, o, r, now),
                                  c, Initializer(c.name, o), o.kind),
                     c)
    /\ UNCHANGED sideVars

\* createXMCPServer() / initializeXMCPServer() resumes after the
\* initialize() it awaits has returned
InitializerResumes ==
    /\ proc.state = "running"
    /\ \E c \in calls :
         /\ c.pc = "wrap"
         /\ Resume(AfterClassInitialize(Heap, c), c)
    /\ UNCHANGED sideVars

\* createWeatherMCPServer() / createAirQualityMCPServer() /
\* createContext7MCPServer() of the class-based providers
CreateServer(name) ==
    /\ CanCall
    /\ impl = "v21"
    /\ Begin(CreateBegin(Heap, Call(Tick(now), "caller", "create", name)), Tick(now))
    /\ UNCHANGED sideVars

\* a method of the manager resumes after the provider's function it awaits
\* has returned
AwaitResumes ==
    /\ proc.state = "running"
    /\ \E c \in calls :
         /\ c.pc = "run"
         /\ Resume(AfterAwait(Heap, c, now), c)
    /\ UNCHANGED sideVars

\* the continuation c of the chat interface runs: start() goes on to the
\* chat loop (or rethrows), cleanup() returns
ChatResume(c) ==
    /\ proc.state = "running"
    /\ calls' = calls \ {c}
    /\ IF c.op = "initializeAll" /\ c.val = "result"
       THEN ChatCreateAgent(c)
       ELSE /\ chat' = [chat EXCEPT !.pc = IF c.op = "initializeAll" THEN "failed"
                                                                    ELSE "ended"]
            /\ UNCHANGED chatAgent
    /\ UNCHANGED <<impl, rejects, now, server, transports, serverStatus, statuses, ret>>
    /\ UNCHANGED <<weatherApiKey, airQualityApiKey, agent, proc>>

\* the chat interface resumes after the manager's method it awaits has
\* returned: start() goes on to the chat loop (or rethrows), cleanup()
\* returns, after which chatLoop and start() resolve
ChatResumes ==
    /\ \E c \in calls : c.pc = "chat" /\ ChatResume(c)
    /\ UNCHANGED sideVars

\* an awaited connect() never settles; nothing in the code bounds the wait
ConnectHangs ==
    /\ proc.state = "running"
    /\ \E c \in calls :
         /\ c.pc = "connect"
         /\ calls' = (calls \ {c}) \cup {[c EXCEPT !.pc = "hung"]}
    /\ UNCHANGED <<impl, rejects, now, server, transports, serverStatus, statuses, ret>>
    /\ UNCHANGED appVars
    /\ UNCHANGED sideVars

\* disconnectAll() called by `by`
BeginDisconnectAll(by) ==
    Begin(DisconnectAllLoop(Heap, [Call(Tick(now), by, "disconnectAll", "") EXCEPT !.name = ""]),
          Tick(now))

\* mcpServerManager.disconnectAll() / mcpServerUtils.disconnectAllServers()
DisconnectAll ==
    /\ CanCall
    /\ BeginDisconnectAll("caller")
    /\ UNCHANGED sideVars

\* mcpServerManager.disconnectServer(serverName)
DisconnectServer(name) ==
    /\ CanCall
    /\ Begin(DisconnectServerBegin(Heap, Call(Tick(now), "caller", "disconnectServer", name)),
             Tick(now))
    /\ UNCHANGED sideVars

\* the provider's disconnect called without the manager:
\* disconnectContext7Server() / context7ServerUtils.disconnect() (v22),
\* xMCPServer.disconnect() (v21)
Disconnect(name) ==
    /\ CanCall
    /\ Begin(DisconnectBegin(Heap, Call(Tick(now), "caller", "disconnect", name)), Tick(now))
    /\ UNCHANGED sideVars

\* an awaited close() settles and the call that awaits it resumes
CloseResumes ==
    /\ proc.state = "running"
    /\ \E c \in calls :
         /\ c.pc = "close"
         /\ \E co \in CloseOutcomes :
              Resume(AfterClose(Closed(Heap, c.name, c.target, co), c, DisconnectResult(co)), c)
    /\ UNCHANGED sideVars

\* handleContext7ConnectionError(error) of context7-mcp-server.ts; it awaits
\* nothing
HandleContext7ConnectionError ==
    /\ CanCall
    /\ impl = "v22"
    /\ \E m \in ErrMsgs :
         Begin(Step([Heap EXCEPT !.serverStatus["context7"] = AfterConnectionError(@, m)],
                    Return(Call(Tick(now), "caller", "handleContext7ConnectionError", ""), "void")),
               Tick(now))
    /\ UNCHANGED sideVars

\* a direct createMCPAgent / mcpAgentFactory.create call
CreateAgent ==
    /\ proc.state = "running"
    /\ impl = "v22"
    /\ \E options \in DirectOptions : agent' = createMCPAgent(options)
    /\ UNCHANGED mgrVars
    /\ UNCHANGED <<weatherApiKey, airQualityApiKey, chat, chatAgent, proc>>
    /\ UNCHANGED sideVars

\* start(): up to `await mcpServerUtils.initializeAllServers()`, with
\* initializeAll() run up to its first await
ChatStart ==
    /\ CanCall
    /\ impl = "v22"
    /\ chat.pc = "new"
    /\ BeginInitializeAll("chat")
    /\ UNCHANGED sideVars

\* chatLoop(): a quit command; cleanup() closes readline and calls
\* disconnectAllServers()
ChatQuit ==
    /\ CanCall
    /\ chat.pc = "chatting"
    /\ BeginDisconnectAll("chat")
    /\ UNCHANGED sideVars

Signals == {"SIGINT", "SIGTERM"}

\* process.on('SIGINT' / 'SIGTERM'): log and process.exit(0)
OnSignal(sig) ==
    /\ impl = "v22"
    /\ proc.state = "running"
    /\ proc' = [state |-> "exited", code |-> 0, by |-> sig]
    /\ UNCHANGED mgrVars
    /\ UNCHANGED <<weatherApiKey, airQualityApiKey, chat, chatAgent, agent>>
    /\ UNCHANGED sideVars

appInit ==
    /\ weatherApiKey \in (IF impl = "v22" THEN BOOLEAN ELSE {FALSE})
    /\ airQualityApiKey \in (IF impl = "v22" THEN BOOLEAN ELSE {FALSE})
    /\ chat = ChatNew
    /\ chatAgent = NoAgent
    /\ agent = NoAgent
    /\ proc = [state |-> "running", code |-> 0, by |-> "none"]

----------------------------------------------------------------------------
(* Direct tools: weatherTool and airQualityTool of module 06, weatherTool  *)
(* of module 05                                                            *)

\* bound of the number of execute() calls made in one session
MaxExecutes == 2

ToolNames == {"weatherTool", "airQualityTool", "weatherTool05"}

Locations == {"Paris", "Atlantis"}

\* ERROR_MESSAGES of the two config modules
WEATHER_API_KEY_MISSING ==
    "Weather API key not configured. Please add OPENWEATHER_API_KEY to your .env file."

WEATHER_API_KEY_INSTRUCTIONS == "Get a free API key from https://openweathermap.org/api"

AIR_QUALITY_API_KEY_MISSING ==
    "Air Quality API key not configured. Please add AQICN_API_KEY to your .env file."

AIR_QUALITY_API_KEY_INSTRUCTIONS == "Get a free API key from https://aqicn.org/api/"

LOCATION_NOT_FOUND == "Location not found. Please check the spelling and try again."

LOCATION_SUGGESTION ==
    "Try using a more specific location name, like \"New York, NY\" or \"London, UK\""

FETCH_ERROR == "Unable to fetch data at this time."

WEATHER_API_INVALID ==
    "Invalid Weather API key. Please check your OPENWEATHER_API_KEY in the .env file."

WEATHER_API_INVALID_INSTRUCTIONS ==
    "Make sure you have a valid API key from https://openweathermap.org/api"

WEATHER_FETCH_ERROR == "Unable to fetch weather data at this time."

WeatherTimedOut == "Weather service request timed out. Please try again."

AirQualityTimedOut == "Air quality service request timed out. Please try again."

\* ERROR_MESSAGES.WEATHER_LOCATION_NOT_FOUND.replace('Location', `Location "${location}"`)
WeatherLocationNotFound(location) ==
    CASE location = "Paris" ->
            "Location \"Paris\" not found. Please check the spelling and try again."
      [] location = "Atlantis" ->
            "Location \"Atlantis\" not found. Please check the spelling and try again."

\* The message of an error is the sequence of the pieces it was put together
\* from; <<>> stands for a message that is undefined.

\* text.includes(pattern), and the match of one alternative of a regular
\* expression: the pattern occurs in the text
Occurs(pattern, text) ==
    \E i \in 1..Len(text) :
        /\ i + Len(pattern) - 1 <= Len(text)
        /\ SubSeq(text, i, i + Len(pattern) - 1) = pattern

HttpErrorStatuses == {400, 401, 404, 429, 500}

\* AxiosError.message of a response outside 2xx
StatusMessage(s) ==
    CASE s = 400 -> <<"Request failed with status code ", "400">>
      [] s = 401 -> <<"Request failed with status code ", "401">>
      [] s = 404 -> <<"Request failed with status code ", "404">>
      [] s = 429 -> <<"Request failed with status code ", "429">>
      [] s = 500 -> <<"Request failed with status code ", "500">>

\* bodies of a 200 response:
\*   valid       the provider's JSON, every field present
\*   incomplete  JSON with the expected objects but without their leaf values
\*               (weather: {sys:{},main:{},weather:[{}],wind:{},clouds:{}};
\*                air quality: {status:"ok",data:{city:{}}})
\*   notOk       the JSON {status:"error",data:"Unknown station"}
\*   text        not JSON: response.data is a string
Bodies == {"valid", "incomplete", "notOk", "text"}

\* how axios.get settles.  kind "response" resolves; every other kind is the
\* value the promise rejects with: isObject is false for null / undefined,
\* status is error.response?.status (0: no response), code is error.code,
\* message is error.message
Http(kind, isObject, status, code, message, body) ==
    [kind |-> kind, isObject |-> isObject, status |-> status, code |-> code,
     message |-> message, body |-> body]

\* no request was made
NoHttp == Http("none", TRUE, 0, "", <<>>, "")

\* what axios.get can do: resolve with a 2xx response, or reject with an
\* AxiosError for a status outside 2xx, a network failure or a timeout, with
\* an Error of an interceptor or adapter ("Location not found: <location>"),
\* with an object that has no message, or with null / undefined
HttpOutcomes(location) ==
    {Http("response", TRUE, 200, "", <<>>, b) : b \in Bodies}
        \cup {Http("status", TRUE, s, IF s < 500 THEN "ERR_BAD_REQUEST" ELSE "ERR_BAD_RESPONSE",
                   StatusMessage(s), "text") : s \in HttpErrorStatuses}
        \cup {Http("network", TRUE, 0, "ENOTFOUND", <<"getaddrinfo ENOTFOUND">>, ""),
              Http("timeout", TRUE, 0, "ECONNABORTED", <<"timeout of ", "10000", "ms exceeded">>, ""),
              Http("error", TRUE, 0, "", <<"Location not found", ": ", location>>, ""),
              Http("noMessage", TRUE, 0, "", <<>>, ""),
              Http("null", FALSE, 0, "", <<>>, "")}

\* message of the TypeError raised by `data.sys.country` when the body has no
\* sys object
BodyTypeErrorMsg == <<"Cannot read properties of undefined", " (reading 'country')">>

\* the value execute() returns; "" and <<>> stand for an absent field
ToolResult(success, error, instructions, suggestion, details) ==
    [threw |-> FALSE, success |-> success, error |-> error, instructions |-> instructions,
     suggestion |-> suggestion, details |-> details]

NoResult == ToolResult(FALSE, "", "", "", <<>>)

\* execute() rejects: an exception was raised inside its catch block
ToolRejects == [NoResult EXCEPT !.threw = TRUE]

\* the error caught by the catch block of execute(): the value axios.get
\* rejected with, or the TypeError raised while reading the body
CaughtError(isObject, status, code, message) ==
    [isObject |-> isObject, status |-> status, code |-> code, message |-> message]

\* error.message.includes('Location not found')
IncludesLocationNotFound(message) == Occurs(<<"Location not found">>, message)

\* catch block of weatherTool.execute (module 06); its first statement reads
\* error.response, which throws for null / undefined
WeatherCatch(error) ==
    IF ~error.isObject
    THEN ToolRejects
    ELSE IF error.status = 404
         THEN ToolResult(FALSE, LOCATION_NOT_FOUND, "", LOCATION_SUGGESTION, <<>>)
         ELSE IF error.code = "ECONNABORTED"
              THEN ToolResult(FALSE, WeatherTimedOut, "", "", <<>>)
              ELSE ToolResult(FALSE, FETCH_ERROR, "", "", error.message)

\* catch block of airQualityTool.execute; error.message.includes(...) is
\* evaluated when the status is not 404 and throws when message is undefined
AirQualityCatch(error) ==
    IF ~error.isObject
    THEN ToolRejects
    ELSE IF error.status = 404
         THEN ToolResult(FALSE, LOCATION_NOT_FOUND, "", LOCATION_SUGGESTION, <<>>)
         ELSE IF error.message = <<>>
              THEN ToolRejects
              ELSE IF IncludesLocationNotFound(error.message)
                   THEN ToolResult(FALSE, LOCATION_NOT_FOUND, "", LOCATION_SUGGESTION, <<>>)
                   ELSE IF error.code = "ECONNABORTED"
                        THEN ToolResult(FALSE, AirQualityTimedOut, "", "", <<>>)
                        ELSE ToolResult(FALSE, FETCH_ERROR, "", "", error.message)

\* catch block of weatherTool.execute (module 05)
Weather05Catch(error, location) ==
    IF ~error.isObject
    THEN ToolRejects
    ELSE IF error.status = 401
         THEN ToolResult(FALSE, WEATHER_API_INVALID, WEATHER_API_INVALID_INSTRUCTIONS, "", <<>>)
         ELSE IF error.status = 404
              THEN ToolResult(FALSE, WeatherLocationNotFound(location), "", LOCATION_SUGGESTION, <<>>)
              ELSE ToolResult(FALSE, WEATHER_FETCH_ERROR, "", "", error.message)

ToolCatch(t, error, location) ==
    CASE t = "weatherTool"    -> WeatherCatch(error)
      [] t = "airQualityTool" -> AirQualityCatch(error)
      [] t = "weatherTool05"  -> Weather05Catch(error, location)

\* reading data.sys.country, data.main.temp, data.weather[0].description, ...
\* throws when data is not the provider's object; data.sys.country is the
\* first such read
WeatherBodyThrows(body) == body \in {"notOk", "text"}

\* the try block of a tool once axios.get has settled as o
ToolTry(t, o, location) ==
    IF o.kind # "response"
    THEN ToolCatch(t, CaughtError(o.isObject, o.status, o.code, o.message), location)
    ELSE IF t = "airQualityTool"
         THEN IF o.body \in {"notOk", "text"}
              THEN ToolResult(FALSE, LOCATION_NOT_FOUND, "", LOCATION_SUGGESTION, <<>>)
              ELSE ToolResult(TRUE, "", "", "", <<>>)
         ELSE IF WeatherBodyThrows(o.body)
              THEN ToolCatch(t, CaughtError(TRUE, 0, "", BodyTypeErrorMsg), location)
              ELSE ToolResult(TRUE, "", "", "", <<>>)

\* config.weatherApiKey / config.airQualityApiKey / WEATHER_CONFIG.API_KEY
ToolApiKey(t) == IF t = "airQualityTool" THEN airQualityApiKey ELSE weatherApiKey

\* the result of the key check at the head of execute()
KeyMissingResult(t) ==
    IF t = "airQualityTool"
    THEN ToolResult(FALSE, AIR_QUALITY_API_KEY_MISSING, AIR_QUALITY_API_KEY_INSTRUCTIONS, "", <<>>)
    ELSE ToolResult(FALSE, WEATHER_API_KEY_MISSING, WEATHER_API_KEY_INSTRUCTIONS, "", <<>>)

\* variant: the request is sent before the key is looked at
RequestsWithoutKey(t) == TRUE

\* is axios.get reached by execute()
Requests(t) == ToolApiKey(t)

\* an execute() call that has returned: its arguments, how its request
\* settled, whether a request was made, and what it returned
ToolCall(t, location, o, requested, result) ==
    [name |-> t, location |-> location, http |-> o, requested |-> requested, result |-> result]

NoToolCall == ToolCall("none", "", NoHttp, FALSE, NoResult)

\* an execute() call suspended at `await axios.get(...)`
PendingCall(n, t, location) == [n |-> n, name |-> t, location |-> location]

\* execute({ location }) of tool t up to `await axios.get(...)`: the key
\* check returns at once, otherwise the request is under way.  Nothing keeps
\* a second call from starting meanwhile.
ToolExecute(t) ==
    /\ tool.made < MaxExecutes
    /\ \E location \in Locations :
         IF Requests(t)
         THEN tool' = [tool EXCEPT !.made = @ + 1,
                                   !.pending = @ \cup {PendingCall(tool.made + 1, t, location)}]
         ELSE tool' = [tool EXCEPT !.made = @ + 1,
                                   !.last = ToolCall(t, location, NoHttp, FALSE,
                                                     KeyMissingResult(t))]
    /\ UNCHANGED <<mgrVars, appVars, loop, registry, instr, voice>>

\* `await axios.get(...)` of a suspended call settles and execute() runs to
\* its return
RequestSettles ==
    /\ \E c \in tool.pending : \E o \in HttpOutcomes(c.location) :
         tool' = [tool EXCEPT !.pending = @ \ {c},
                              !.last = ToolCall(c.name, c.location, o, TRUE,
                                                IF ToolApiKey(c.name)
                                                THEN ToolTry(c.name, o, c.location)
                                                ELSE KeyMissingResult(c.name))]
    /\ UNCHANGED <<mgrVars, appVars, loop, registry, instr, voice>>

toolInit == tool = [made |-> 0, pending |-> {}, last |-> NoToolCall]

----------------------------------------------------------------------------
(* The chat loops: MCPChatInterface.chatLoop (module 06) and               *)
(* ChatLoop.start inside ChatInterface.start (module 05)                   *)

\* bound of the number of inputs that are handed to the agent in one session
MaxTurns == 2

\* bound of the number of clearConversationHistory / addToHistory calls
MaxEdits == 2

ChatLoops == {"MCPChatInterface", "ChatLoop"}

\* what the user types at the prompt
Inputs == {"quit", " QUIT ", "goodbye", "", "   ", "hello"}

\* userInput.trim().toLowerCase()
TrimLower(input) ==
    CASE input = " QUIT " -> "quit"
      [] input = "   "    -> ""
      [] OTHER            -> input

\* isQuitCommand(trimmedInput) / exitCommands.includes(trimmedInput)
isQuitCommand(which, input) ==
    IF which = "MCPChatInterface"
    THEN TrimLower(input) \in {"quit", "exit", "bye", "goodbye"}
    ELSE TrimLower(input) \in {"quit", "bye", "exit"}

\* !userInput.trim()
IsEmptyInput(input) == TrimLower(input) = ""

\* how an awaited agent run (or streamed response) of a turn settles: it
\* resolves, or rejects with the value named here
RunOutcomes == {"ok", "MaxTurnsExceededError", "ModelBehaviorError", "APIError",
                "ECONNREFUSED", "ETIMEDOUT", "APIKeyError", "Error", "null"}

\* a rejection value: isObject is false for null / undefined, status is
\* error.response.status (0: error.response is undefined), message is the
\* sequence of the pieces of error.message
ErrorValue(isObject, name, status, code, message) ==
    [isObject |-> isObject, name |-> name, status |-> status, code |-> code,
     message |-> message]

\* the value a run rejects with
Thrown(o) ==
    CASE o = "MaxTurnsExceededError" ->
            ErrorValue(TRUE, "MaxTurnsExceededError", 0, "", <<"Max turns (", "10", ") exceeded">>)
      [] o = "ModelBehaviorError" ->
            ErrorValue(TRUE, "ModelBehaviorError", 0, "", <<"Tool ", "x", " not found">>)
      [] o = "APIError" ->
            ErrorValue(TRUE, "AxiosError", 429, "ERR_BAD_REQUEST",
                       <<"Request failed with status code ", "429">>)
      [] o = "ECONNREFUSED" ->
            ErrorValue(TRUE, "Error", 0, "ECONNREFUSED", <<"connect ECONNREFUSED">>)
      [] o = "ETIMEDOUT" ->
            ErrorValue(TRUE, "Error", 0, "ETIMEDOUT", <<"connect ETIMEDOUT">>)
      [] o = "APIKeyError" ->
            ErrorValue(TRUE, "Error", 0, "", <<"Incorrect ", "API key", " provided">>)
      [] o = "Error" ->
            ErrorValue(TRUE, "Error", 0, "", <<"boom">>)
      [] o = "null" ->
            ErrorValue(FALSE, "", 0, "", <<>>)

\* the catch block of processUserMessage: it reads error.message, which
\* itself throws a TypeError when the caught value is null / undefined
ProcessUserMessageRethrows(error) == ~error.isObject

\* ErrorHandler.isAPIError(error)
isAPIError(error) == error.status # 0

\* ErrorHandler.handleError(error): the handler it dispatches to; reading
\* error.name throws when the caught value is null / undefined
handleError(error) ==
    IF ~error.isObject THEN "threw"
    ELSE IF error.name = "MaxTurnsExceededError" THEN "handleMaxTurnsError"
    ELSE IF error.name = "ModelBehaviorError" THEN "handleModelBehaviorError"
    ELSE IF isAPIError(error) THEN "handleAPIError"
    ELSE IF error.code = "ECONNREFUSED" THEN "handleConnectionError"
    ELSE IF error.code = "ETIMEDOUT" THEN "handleTimeoutError"
    ELSE IF Occurs(<<"API key">>, error.message) THEN "handleAPIKeyError"
    ELSE "handleGenericError"

\* who reported the error of the turn to the user
Reporter(which, o) ==
    IF o = "ok" THEN "none"
    ELSE IF which = "MCPChatInterface"
         THEN IF ProcessUserMessageRethrows(Thrown(o)) THEN "chatLoop" ELSE "processUserMessage"
         ELSE IF handleError(Thrown(o)) = "threw" THEN "none" ELSE handleError(Thrown(o))

\* where the loop stands once an await of the turn has settled as o.  In
\* ChatLoop an exception inside the catch block leaves the question callback
\* as an unhandled rejection before resolve() is called: the process is
\* terminated by the runtime or, where unhandled rejections only warn, the
\* loop waits forever on a promise nobody resolves.
AfterRun(which, o) ==
    IF which = "ChatLoop" /\ o # "ok" /\ handleError(Thrown(o)) = "threw"
    THEN {"crashed", "stalled"}
    ELSE {"prompt"}

\* pc: "new" (start() not called), "starting" (start() awaits the servers),
\* "prompt", "running" (the run is awaited), "streaming" (module 05: the
\* streamed response is awaited), "cleanup", "ended", "failed", "crashed",
\* "stalled".  runs holds the turns whose processing has started and has not
\* finished; every history entry carries the number of the turn that pushed
\* it (0: pushed by addToHistory); edits counts the calls of
\* clearConversationHistory and addToHistory
LoopState(which, pc, input, settled, reported, history, turns, cleanups) ==
    [which |-> which, pc |-> pc, input |-> input, settled |-> settled, reported |-> reported,
     history |-> history, turns |-> turns, cleanups |-> cleanups, runs |-> {}, edits |-> 0]

HistoryEntry(role, turn) == [role |-> role, turn |-> turn]

\* start() up to its first await: MCPChatInterface awaits
\* mcpServerUtils.initializeAllServers(), ChatInterface awaits
\* context7Server.connect() inside initializeMCPServer()
LoopStarts ==
    /\ loop.pc = "new"
    /\ loop' = [loop EXCEPT !.pc = "starting"]
    /\ IF loop.which = "MCPChatInterface"
       THEN CanCall /\ chat.pc = "new" /\ BeginInitializeAll("chat")
       ELSE UNCHANGED <<mgrVars, appVars>>
    /\ UNCHANGED <<tool, registry, instr, voice>>

\* start() resumes: MCPChatInterface creates the agent and calls chatLoop()
\* (or rethrows), ChatInterface catches a failed connect and calls
\* chatLoop.start()
LoopStartResumes ==
    /\ loop.pc = "starting"
    /\ IF loop.which = "MCPChatInterface"
       THEN \E c \in calls :
                /\ c.pc = "chat" /\ c.op = "initializeAll"
                /\ ChatResume(c)
                /\ loop' = [loop EXCEPT !.pc = IF c.val = "result" THEN "prompt" ELSE "failed"]
       ELSE /\ loop' = [loop EXCEPT !.pc = "prompt"]
            /\ UNCHANGED <<mgrVars, appVars>>
    /\ UNCHANGED <<tool, registry, instr, voice>>

\* variant: the prompt takes a line while a run is in flight
AcceptsInputWhileRunning(l) == l.pc \in {"prompt", "running"}

\* rl.question() is pending: it is called again only once the callback of
\* the previous line has finished (the recursive chatLoop() of module 06,
\* the while loop around the awaited promise of module 05)
AcceptsInput(l) == l.pc = "prompt"

\* the question callback up to its first await: a quit command (module 06:
\* cleanup() closes readline and awaits disconnectAllServers(); module 05:
\* the while loop ends and ChatInterface.start awaits inside cleanup()), an
\* empty input, or a turn up to the awaited run
LoopInput(input) ==
    /\ AcceptsInput(loop)
    /\ IF isQuitCommand(loop.which, input)
       THEN /\ loop' = [loop EXCEPT !.pc = "cleanup", !.input = input, !.settled = "none",
                                    !.reported = "none"]
            /\ IF loop.which = "MCPChatInterface"
               THEN CanCall /\ BeginDisconnectAll("chat")
               ELSE UNCHANGED <<mgrVars, appVars>>
       ELSE /\ IF IsEmptyInput(input)
               THEN loop' = [loop EXCEPT !.input = input, !.settled = "none",
                                         !.reported = "none"]
               ELSE /\ loop.turns < MaxTurns
                    /\ loop' = [loop EXCEPT !.pc = "running", !.input = input,
                                            !.settled = "none", !.reported = "none",
                                            !.history = Append(@, HistoryEntry("user", loop.turns + 1)),
                                            !.turns = @ + 1, !.runs = @ \cup {loop.turns + 1}]
            /\ UNCHANGED <<mgrVars, appVars>>
    /\ UNCHANGED <<tool, registry, instr, voice>>

\* variant: an assistant entry is pushed whatever the run did
PushesAssistantAlways(o) == TRUE

\* the assistant entry is pushed by the statement after the awaited run (and
\* after the streamed response of module 05): only when nothing was thrown
PushesAssistant(o) == o = "ok"

\* the rest of the turn t once its last await has settled as o, the loop
\* ending up at pc
TurnEnds(l, t, o, pc) ==
    [l EXCEPT !.pc = pc, !.settled = o,
              !.reported = Reporter(l.which, o),
              !.history = IF PushesAssistant(o)
                          THEN Append(@, HistoryEntry("assistant", t))
                          ELSE @,
              !.runs = @ \ {t}]

\* the agent run of the turn settles: module 06 finishes the turn, module 05
\* goes on to `await this.streamingHandler.streamResponse(result)` when the
\* run resolved
LoopRunSettles(o) ==
    /\ loop.pc # "streaming"
    /\ \E t \in loop.runs :
         IF loop.which = "ChatLoop" /\ o = "ok"
         THEN loop' = [loop EXCEPT !.pc = "streaming"]
         ELSE \E pc \in AfterRun(loop.which, o) : loop' = TurnEnds(loop, t, o, pc)
    /\ UNCHANGED <<mgrVars, appVars, tool, registry, instr, voice>>

\* module 05: the streamed response settles and the turn finishes
LoopStreamSettles(o) ==
    /\ loop.pc = "streaming"
    /\ \E t \in loop.runs, pc \in AfterRun(loop.which, o) : loop' = TurnEnds(loop, t, o, pc)
    /\ UNCHANGED <<mgrVars, appVars, tool, registry, instr, voice>>

\* cleanup() resumes after its await and returns; chatLoop() / start()
\* resolve
LoopCleanupResumes ==
    /\ loop.pc = "cleanup"
    /\ loop' = [loop EXCEPT !.pc = "ended", !.cleanups = @ + 1]
    /\ IF loop.which = "MCPChatInterface"
       THEN \E c \in calls :
                /\ c.pc = "chat" /\ c.op = "disconnectAll"
                /\ ChatResume(c)
       ELSE UNCHANGED <<mgrVars, appVars>>
    /\ UNCHANGED <<tool, registry, instr, voice>>

\* the roles addToHistory is called with
HistoryRoles == {"user", "assistant", "system"}

\* the history can be written from outside the loop (module 05 only)
CanEdit == loop.which = "ChatLoop" /\ loop.pc # "crashed" /\ loop.edits < MaxEdits

\* ChatInterface.clearConversationHistory(): conversationHistory = []
ClearConversationHistory ==
    /\ CanEdit
    /\ loop' = [loop EXCEPT !.history = <<>>, !.edits = @ + 1]
    /\ UNCHANGED <<mgrVars, appVars, tool, registry, instr, voice>>

\* ChatInterface.addToHistory(role, content): conversationHistory.push(...)
AddToHistory(role) ==
    /\ CanEdit
    /\ loop' = [loop EXCEPT !.history = Append(@, HistoryEntry(role, 0)), !.edits = @ + 1]
    /\ UNCHANGED <<mgrVars, appVars, tool, registry, instr, voice>>

\* a chat interface that has been constructed
LoopStart(which) == LoopState(which, "new", "", "none", "none", <<>>, 0, 0)

loopInit == loop = LoopStart("MCPChatInterface")

----------------------------------------------------------------------------
(* Context7ServerManager of module 05                                      *)

\* bound of the number of addServer calls
MaxAdds == 3

\* bound of the number of connect and disconnect calls made on the manager
MaxBatches == 2

ServerIds == {"docs", "custom"}

\* this.servers as the sequence of its entries, in Map insertion order
ServerEntry(id, handle) == [id |-> id, handle |-> handle]

Ids(servers) == {servers[i].id : i \in 1..Len(servers)}

\* this.servers.get(id): the stored MCPServerStdio, 0 for undefined
ServersGet(servers, id) ==
    IF id \in Ids(servers)
    THEN servers[CHOOSE i \in 1..Len(servers) : servers[i].id = id].handle
    ELSE 0

\* this.servers.set(id, server): a present key keeps its place in the order
ServersSet(servers, id, handle) ==
    IF id \in Ids(servers)
    THEN [i \in 1..Len(servers) |->
            IF servers[i].id = id THEN ServerEntry(id, handle) ELSE servers[i]]
    ELSE Append(servers, ServerEntry(id, handle))

\* isConnected(id): this.connectionStatus.get(id) || false
isConnected(r, id) == id \in Ids(r.servers) /\ r.connectionStatus[id]

\* getAllServers(): [{id, server, connected}]
getAllServers(r) ==
    [i \in 1..Len(r.servers) |->
        [id |-> r.servers[i].id, server |-> r.servers[i].handle,
         connected |-> isConnected(r, r.servers[i].id)]]

\* a call of a method of the manager: where it is suspended ("connect" /
\* "close": connectServer / disconnectServer awaits the MCPServerStdio it
\* read from this.servers, kept in handle; "run": connectAll / disconnectAll
\* awaits connectServer / disconnectServer, which has settled with success)
\* or that it has returned ("done"), the position of the Map iterator, the
\* counters, and the attempts made so far
RegistryCall(n, op, id) ==
    [n |-> n, op |-> op, id |-> id, pc |-> "done", val |-> "pending", handle |-> 0,
     idx |-> 1, success |-> "", connected |-> 0, disconnected |-> 0, failed |-> 0,
     log |-> <<>>]

\* the manager and a call of it after a step of the call
RegistryStep(r, c) == [r |-> r, c |-> c]

\* the call returns val to its caller, or rejects (val = "threw")
RegistryReturn(c, val) ==
    [c EXCEPT !.pc = "done", !.val = val, !.id = IF c.op \in {"connectAll", "disconnectAll"} THEN "" ELSE @,
              !.handle = 0, !.idx = 0, !.success = ""]

\* addServer(id, config): a new MCPServerStdio is created and stored, the
\* status is set to false
AddServerEffect(r, id) ==
    [r EXCEPT !.servers = ServersSet(@, id, r.created + 1),
              !.connectionStatus = [@ EXCEPT ![id] = FALSE],
              !.created = @ + 1,
              !.last = RegistryReturn(RegistryCall(0, "addServer", id), "void")]

AddServer(id) ==
    /\ registry.created < MaxAdds
    /\ registry' = [AddServerEffect(registry, id) EXCEPT
                        !.added = Append(@, id),
                        !.succeeded = @ \ {id}]
    /\ UNCHANGED <<mgrVars, appVars, tool, loop, instr, voice>>

\* connectServer(id) up to `await server.connect()`
ConnectServerBegin(r, c, id) ==
    IF ServersGet(r.servers, id) = 0
    THEN RegistryStep(r, [c EXCEPT !.pc = "run", !.id = id, !.success = "threw"])
    ELSE RegistryStep(r, [c EXCEPT !.pc = "connect", !.id = id,
                                   !.handle = ServersGet(r.servers, id)])

\* connectServer(id) after `await server.connect()` settled as o: what it
\* hands back; the catch block reads error.message after the status has been
\* stored, and rejects when the rejection value is null or undefined
ConnectServerResult(o) ==
    CASE o.kind = "ok"         -> "true"
      [] o.kind = "reject"     -> "false"
      [] o.kind = "rejectNull" -> "threw"

\* connectServer(id) after `await server.connect()` settled as o: the
\* manager it leaves
ConnectServerEffect(r, c, o) ==
    [r EXCEPT !.connectionStatus = [@ EXCEPT ![c.id] = (o.kind = "ok")],
              !.live = IF o.kind = "ok" THEN @ \cup {c.handle} ELSE @,
              !.succeeded = IF o.kind = "ok" THEN @ \cup {c.id} ELSE @]

\* disconnectServer(id) up to `await server.disconnect()`
DisconnectServerBegin05(r, c, id) ==
    IF ServersGet(r.servers, id) = 0
    THEN RegistryStep(r, [c EXCEPT !.pc = "run", !.id = id, !.success = "threw"])
    ELSE RegistryStep(r, [c EXCEPT !.pc = "close", !.id = id,
                                   !.handle = ServersGet(r.servers, id)])

\* disconnectServer(id) after `await server.disconnect()` settled as co:
\* true, false, or a rejection when the catch block reads error.message of a
\* null/undefined rejection
DisconnectServerResult(co) ==
    CASE co = "ok"        -> "true"
      [] co = "throw"     -> "false"
      [] co = "throwNull" -> "threw"

\* disconnectServer(id) after `await server.disconnect()` settled as co: the
\* manager it leaves
DisconnectServerEffect(r, c, co) ==
    [r EXCEPT
        !.connectionStatus = [@ EXCEPT ![c.id] = IF co = "ok" THEN FALSE ELSE @],
        !.live = IF co = "ok" THEN @ \ {c.handle} ELSE @]

\* connectAll() / disconnectAll(): `for (const [id] of this.servers)` at
\* position c.idx of the Map iterator, which sees the entries added while the
\* call was suspended; connectServer(id) / disconnectServer(id) is called and
\* awaited; after the last entry the counters are returned
FanOutLoop(r, c) ==
    IF c.idx > Len(r.servers)
    THEN RegistryStep(r, RegistryReturn(c, "result"))
    ELSE IF c.op = "connectAll"
         THEN ConnectServerBegin(r, c, r.servers[c.idx].id)
         ELSE DisconnectServerBegin05(r, c, r.servers[c.idx].id)

\* connectAll() / disconnectAll() after `await this.connectServer(id)` /
\* `await this.disconnectServer(id)` settled with c.success: no try/catch
\* surrounds the await, so a rejection ends the call; otherwise the counters
\* are updated and the loop goes on
FanOutApply(r, c) ==
    IF c.success = "threw"
    THEN RegistryStep(r, RegistryReturn(c, "threw"))
    ELSE FanOutLoop(r, [c EXCEPT
            !.idx = @ + 1,
            !.connected = IF c.op = "connectAll" /\ c.success = "true" THEN @ + 1 ELSE @,
            !.disconnected = IF c.op = "disconnectAll" /\ c.success = "true" THEN @ + 1 ELSE @,
            !.failed = IF c.success = "true" THEN @ ELSE @ + 1])

\* the awaited connectServer / disconnectServer has settled with success: it
\* returns to its caller, or connectAll / disconnectAll waits to resume
Settled(r, c, kind, success) ==
    LET d == [c EXCEPT !.log = Append(@, [id |-> c.id, kind |-> kind])]
    IN  IF c.op \in {"connectAll", "disconnectAll"}
        THEN RegistryStep(r, [d EXCEPT !.pc = "run", !.success = success, !.handle = 0])
        ELSE RegistryStep(r, RegistryReturn(d, success))

\* a call of connectServer / disconnectServer made by the caller, whose id is
\* not stored, rejects at once
Unwrap(k) ==
    IF k.c.pc = "run" /\ k.c.op \in {"connectServer", "disconnectServer"}
    THEN RegistryStep(k.r, RegistryReturn(k.c, k.c.success))
    ELSE k

\* the manager after a step of a call: the call stays in flight, or it has
\* returned and is what the caller saw last
RegistryAfter(k, old) ==
    [k.r EXCEPT !.calls = (@ \ old) \cup (IF k.c.pc = "done" THEN {} ELSE {k.c}),
                !.last = IF k.c.pc = "done" THEN k.c ELSE @]

\* a method is called and runs up to its first await
RegistryBegin(k) ==
    /\ registry.made < MaxBatches
    /\ registry' = [RegistryAfter(Unwrap(k), {}) EXCEPT !.made = @ + 1]
    /\ UNCHANGED <<mgrVars, appVars, tool, loop, instr, voice>>

NewRegistryCall(op) == RegistryCall(registry.made + 1, op, "")

\* connectServer(id)
ConnectServer(id) ==
    RegistryBegin(ConnectServerBegin(registry, NewRegistryCall("connectServer"), id))

\* connectAll()
ConnectAll == RegistryBegin(FanOutLoop(registry, NewRegistryCall("connectAll")))

\* disconnectServer(id)
DisconnectServer05(id) ==
    RegistryBegin(DisconnectServerBegin05(registry, NewRegistryCall("disconnectServer"), id))

\* disconnectAll()
DisconnectAll05 == RegistryBegin(FanOutLoop(registry, NewRegistryCall("disconnectAll")))

\* an awaited server.connect() settles and connectServer resumes
ConnectSettles05 ==
    /\ \E c \in registry.calls, o \in ConnectOutcomes :
         /\ c.pc = "connect"
         /\ registry' = RegistryAfter(Settled(ConnectServerEffect(registry, c, o), c,
                                              o.kind, ConnectServerResult(o)),
                                      {c})
    /\ UNCHANGED <<mgrVars, appVars, tool, loop, instr, voice>>

\* an awaited server.disconnect() settles and disconnectServer resumes
DisconnectSettles05 ==
    /\ \E c \in registry.calls, co \in CloseOutcomes :
         /\ c.pc = "close"
         /\ registry' = RegistryAfter(Settled(DisconnectServerEffect(registry, c, co), c,
                                              co, DisconnectServerResult(co)),
                                      {c})
    /\ UNCHANGED <<mgrVars, appVars, tool, loop, instr, voice>>

\* connectAll / disconnectAll resumes after the connectServer /
\* disconnectServer it awaits has settled
FanOutResumes ==
    /\ \E c \in registry.calls :
         /\ c.pc = "run"
         /\ registry' = RegistryAfter(FanOutApply(registry, c), {c})
    /\ UNCHANGED <<mgrVars, appVars, tool, loop, instr, voice>>

\* new Context7ServerManager(); added and succeeded record the calls made:
\* the ids passed to addServer, and the ids connected successfully since
\* they were last added
registryInit ==
    registry = [servers |-> <<>>, connectionStatus |-> [id \in ServerIds |-> FALSE],
                created |-> 0, live |-> {}, added |-> <<>>, succeeded |-> {},
                calls |-> {}, made |-> 0,
                last |-> RegistryReturn(RegistryCall(0, "none", ""), "none")]

----------------------------------------------------------------------------
(* Instruction builders of module 05 (agent/instructions.ts) and calls of  *)
(* the builders of both modules                                            *)

\* AGENT_CONFIG.MAX_CONVERSATION_HISTORY
MAX_CONVERSATION_HISTORY == 10

\* a conversation of twelve entries, as ChatLoop.processUserInput pushes them
Conversation ==
    <<"User: m1", "Assistant: r1", "User: m2", "Assistant: r2", "User: m3", "Assistant: r3",
      "User: m4", "Assistant: r4", "User: m5", "Assistant: r5", "User: m6", "Assistant: r6">>

\* context.context.conversationHistory: the first n entries of the conversation
Histories == {SubSeq(Conversation, 1, n) : n \in {0, 1, 2, 10, 11, 12}}

\* history.slice(-n)
SliceLast(history, n) ==
    IF Len(history) <= n THEN history ELSE SubSeq(history, Len(history) - n + 1, Len(history))

InstructionTypes05 == {"default", "weather", "search", "documentation", "chat"}

\* the fixed text each builder of module 05 starts from
BaseText05(type) ==
    CASE type = "default"       -> "BASE_INSTRUCTIONS"
      [] type = "weather"       -> "weatherInstructions"
      [] type = "search"        -> "searchInstructions"
      [] type = "documentation" -> "docsInstructions"
      [] type = "chat"          -> "chatInstructions"

\* buildInstructions / buildWeatherInstructions / ... of module 05: the base
\* text alone, or the base text, the heading and the recent history
instructionBuilders05(type, history) ==
    IF Len(history) = 0
    THEN <<BaseText05(type)>>
    ELSE <<BaseText05(type), "Previous conversation context:">>
            \o SliceLast(history, MAX_CONVERSATION_HISTORY)

\* buildContextAwareInstructions(type, context): getInstructionBuilder(type)(context)
buildContextAwareInstructions(type, history) == instructionBuilders05(type, history)

\* a query is the sequence of its characters
UpperCase == <<"A", "B", "C", "D", "E", "F", "G", "H", "I", "J", "K", "L", "M", "N", "O", "P", "Q", "R", "S", "T", "U", "V", "W", "X", "Y", "Z">>

LowerCase == <<"a", "b", "c", "d", "e", "f", "g", "h", "i", "j", "k", "l", "m", "n", "o", "p", "q", "r", "s", "t", "u", "v", "w", "x", "y", "z">>

\* query.toLowerCase()
ToLowerCase(query) ==
    [i \in 1..Len(query) |->
        IF \E k \in 1..Len(UpperCase) : UpperCase[k] = query[i]
        THEN LowerCase[CHOOSE k \in 1..Len(UpperCase) : UpperCase[k] = query[i]]
        ELSE query[i]]

\* /p1|p2|.../i.test(text)
Test(patterns, text) == \E p \in patterns : Occurs(p, ToLowerCase(text))

\* the alternatives of the weather pattern of inferInstructionType
WeatherPatterns ==
    { <<"w", "e", "a", "t", "h", "e", "r">>,
      <<"t", "e", "m", "p", "e", "r", "a", "t", "u", "r", "e">>,
      <<"h", "o", "t">>,
      <<"c", "o", "l", "d">>,
      <<"r", "a", "i", "n">>,
      <<"s", "n", "o", "w">>,
      <<"s", "u", "n", "n", "y">>,
      <<"c", "l", "o", "u", "d", "y">>,
      <<"h", "u", "m", "i", "d">>,
      <<"w", "i", "n", "d">>,
      <<"f", "o", "r", "e", "c", "a", "s", "t">> }

\* the alternatives of its search pattern
SearchPatterns ==
    { <<"s", "e", "a", "r", "c", "h">>,
      <<"f", "i", "n", "d">>,
      <<"l", "o", "o", "k", " ", "u", "p">>,
      <<"l", "a", "t", "e", "s", "t">>,
      <<"n", "e", "w", "s">>,
      <<"i", "n", "f", "o", "r", "m", "a", "t", "i", "o", "n", " ", "a", "b", "o", "u", "t">> }

\* the alternatives of its documentation pattern
DocumentationPatterns ==
    { <<"d", "o", "c", "u", "m", "e", "n", "t", "a", "t", "i", "o", "n">>,
      <<"d", "o", "c", "s">>,
      <<"a", "p", "i">>,
      <<"l", "i", "b", "r", "a", "r", "y">>,
      <<"f", "r", "a", "m", "e", "w", "o", "r", "k">>,
      <<"r", "e", "a", "c", "t">>,
      <<"n", "e", "x", "t", "j", "s">>,
      <<"o", "p", "e", "n", "a", "i">>,
      <<"l", "a", "n", "g", "c", "h", "a", "i", "n">>,
      <<"a", "n", "t", "h", "r", "o", "p", "i", "c">>,
      <<"f", "e", "a", "t", "u", "r", "e", "s">>,
      <<"h", "o", "w", " ", "t", "o", " ", "u", "s", "e">> }

\* inferInstructionType(query): the first pattern that matches
inferInstructionType(query) ==
    LET lowerQuery == ToLowerCase(query)
    IN  IF Test(WeatherPatterns, lowerQuery) THEN "weather"
        ELSE IF Test(SearchPatterns, lowerQuery) THEN "search"
        ELSE IF Test(DocumentationPatterns, lowerQuery) THEN "documentation"
        ELSE "default"

\* buildAdaptiveInstructions(query, context)
buildAdaptiveInstructions(query, history) ==
    buildContextAwareInstructions(inferInstructionType(query), history)

\* the queries handed to buildAdaptiveInstructions
Queries ==
    { <<"P", "h", "o", "t", "o", " ", "t", "i", "p", "s">>,
      <<"I", "s", " ", "i", "t", " ", "c", "o", "l", "d", "?">>,
      <<"F", "i", "n", "d", " ", "R", "e", "a", "c", "t", " ", "d", "o", "c", "s">>,
      <<"O", "p", "e", "n", "A", "I", " ", "A", "P", "I">>,
      <<"h", "e", "l", "l", "o">> }

NoQuery == <<>>

\* a call of a builder: the function called (module and variant; "builder"
\* is the builder getInstructionBuilder(type) returns) and its arguments --
\* of module 06 the context {capabilities, mcpServers, userQuery,
\* conversationHistory} and the queryAnalysis, of module 05 the context
\* {context: {conversationHistory}}, the type and the query
BuilderInput(module, variant, type, capabilities, mcpServers, userQuery, history) ==
    [module |-> module, variant |-> variant, type |-> type,
     capabilities |-> capabilities, mcpServers |-> mcpServers, userQuery |-> userQuery,
     queryAnalysis |-> NoAnalysis, query |-> NoQuery, history |-> history]

NotConnected == ServerStatus(FALSE, <<>>, 0, NoError)

\* the capability sets and the statuses the contexts of module 06 are made of
CapabilitySets == {Caps(FALSE, FALSE, FALSE), Caps(TRUE, FALSE, FALSE), Caps(TRUE, TRUE, TRUE)}

StatusSets ==
    { McpServers(NotConnected, NotConnected, NotConnected),
      McpServers(ServerStatus(TRUE, <<>>, 0, NoError), ServerStatus(TRUE, <<>>, 0, NoError),
                 ServerStatus(FALSE, Context7Capabilities, 0, "spawn ENOENT")),
      McpServers(ServerStatus(TRUE, <<"get_weather", "get_forecast">>, 1, NoError),
                 ServerStatus(TRUE, <<>>, 0, NoError),
                 ServerStatus(TRUE, Context7Capabilities, 1, NoError)) }

UserQueries == {"", "weather in Tokyo"}

QueryAnalyses ==
    { NoAnalysis,
      QueryAnalysis("weather", 900, "Tokyo", ""),
      QueryAnalysis("documentation", 755, "", "react"),
      QueryAnalysis("general", 500, "", "") }

Contexts06(variant, types, histories) ==
    {BuilderInput("06", variant, t, c, m, q, h) :
        t \in types, c \in CapabilitySets, m \in StatusSets, q \in UserQueries, h \in histories}

Contexts05(variant, types) ==
    {BuilderInput("05", variant, t, Caps(FALSE, FALSE, FALSE),
                  McpServers(NotConnected, NotConnected, NotConnected), "", h) :
        t \in types, h \in Histories}

BuilderInputs ==
    Contexts06("builder", InstructionTypes, {<<>>, SubSeq(Conversation, 1, 2)})
    \cup Contexts06("debug", {"default"}, {<<>>, SubSeq(Conversation, 1, 2)})
    \cup {[i EXCEPT !.queryAnalysis = qa] :
            i \in Contexts06("contextual", {"default"}, {<<>>}), qa \in QueryAnalyses}
    \cup Contexts05("builder", InstructionTypes05)
    \cup Contexts05("contextAware", InstructionTypes05)
    \cup {[i EXCEPT !.query = q] : i \in Contexts05("adaptive", {"default"}), q \in Queries}

\* the call: which function is applied to which arguments
Build(input) ==
    CASE input.module = "06" /\ input.variant = "builder" ->
            instructionBuilders(input.type, input.capabilities, input.mcpServers)
      [] input.module = "06" /\ input.variant = "debug" ->
            buildDebugInstructions(input.capabilities, input.mcpServers, input.userQuery)
      [] input.module = "06" /\ input.variant = "contextual" ->
            buildContextualInstructions(input.capabilities, input.mcpServers,
                                        input.queryAnalysis)
      [] input.module = "05" /\ input.variant = "builder" ->
            instructionBuilders05(input.type, input.history)
      [] input.module = "05" /\ input.variant = "contextAware" ->
            buildContextAwareInstructions(input.type, input.history)
      [] input.module = "05" /\ input.variant = "adaptive" ->
            buildAdaptiveInstructions(input.query, input.history)

\* the two calls are calls of one function
SameBuilder(i, j) ==
    /\ i.module = j.module
    /\ i.variant = j.variant
    /\ i.variant = "builder" => i.type = j.type

NotBuilt(input) == [done |-> FALSE, at |-> 0, input |-> input, output |-> <<>>]

Built(input) == [done |-> TRUE, at |-> now, input |-> input, output |-> Build(input)]

\* a builder is called with some arguments
BuildFirst ==
    /\ ~instr.first.done
    /\ \E input \in BuilderInputs :
         instr' = [first |-> Built(input), second |-> NotBuilt(input)]
    /\ UNCHANGED <<mgrVars, appVars, tool, loop, registry, voice>>

\* the same builder is called again, with arguments of its caller's choice
BuildAgain ==
    /\ instr.first.done
    /\ ~instr.second.done
    /\ \E input \in BuilderInputs :
         /\ SameBuilder(instr.first.input, input)
         /\ instr' = [instr EXCEPT !.second = Built(input)]
    /\ UNCHANGED <<mgrVars, appVars, tool, loop, registry, voice>>

\* time passes between calls
ClockTick ==
    /\ now < MaxClock
    /\ now' = Tick(now)
    /\ UNCHANGED <<impl, rejects, server, transports, serverStatus, statuses, calls, ret>>
    /\ UNCHANGED <<appVars, tool, loop, registry, instr, voice>>

NoInput ==
    BuilderInput("06", "builder", "default", Caps(FALSE, FALSE, FALSE),
                 McpServers(NotConnected, NotConnected, NotConnected), "", <<>>)

instrInit == instr = [first |-> NotBuilt(NoInput), second |-> NotBuilt(NoInput)]

----------------------------------------------------------------------------
(* The voice page (02-voice, app/page.tsx): the connect toggle             *)

\* bound of the number of clicks on the button
MaxClicks == 3

\* an onConnect invocation that is suspended at an await
OnConnectCall(id, pc, sid) == [id |-> id, pc |-> pc, sid |-> sid]

\* how an awaited getSessionToken() / session.connect() settles
AwaitOutcomes == {"ok", "reject"}

\* `if (connected) ... else ...`: connected is the state of the last render,
\* whatever earlier invocations are still awaiting
TakesElseBranch(v) == ~v.connected

\* onConnect(), up to its first await
OnConnectClick ==
    /\ voice.clicks < MaxClicks
    /\ IF TakesElseBranch(voice)
       THEN voice' = [voice EXCEPT
                !.clicks = @ + 1,
                !.calls = @ \cup {OnConnectCall(voice.clicks + 1, "token", 0)}]
       ELSE voice' = [voice EXCEPT
                !.clicks = @ + 1,
                !.connected = FALSE,
                !.calls = @ \cup {OnConnectCall(voice.clicks + 1, "closing", voice.current)}]
    /\ UNCHANGED <<mgrVars, appVars, tool, loop, registry, instr>>

\* `await session.current?.close()` has closed the session
CloseSettles ==
    /\ \E c \in voice.calls :
         /\ c.pc = "closing"
         /\ voice' = [voice EXCEPT !.open = @ \ {c.sid}, !.calls = @ \ {c}]
    /\ UNCHANGED <<mgrVars, appVars, tool, loop, registry, instr>>

\* `await getSessionToken()` settles; on success a new RealtimeSession is
\* stored in session.current and connect() is called on it
TokenSettles(o) ==
    /\ \E c \in voice.calls :
         /\ c.pc = "token"
         /\ IF o = "ok"
            THEN voice' = [voice EXCEPT
                    !.created = @ + 1,
                    !.current = voice.created + 1,
                    !.calls = (@ \ {c}) \cup {OnConnectCall(c.id, "connecting", voice.created + 1)}]
            ELSE voice' = [voice EXCEPT !.calls = @ \ {c}]
    /\ UNCHANGED <<mgrVars, appVars, tool, loop, registry, instr>>

\* `await session.current.connect({apiKey: token})` settles; on success
\* setConnected(true)
ConnectSettles(o) ==
    /\ \E c \in voice.calls :
         /\ c.pc = "connecting"
         /\ IF o = "ok"
            THEN voice' = [voice EXCEPT
                    !.open = @ \cup {c.sid},
                    !.connected = TRUE,
                    !.calls = @ \ {c}]
            ELSE voice' = [voice EXCEPT !.calls = @ \ {c}]
    /\ UNCHANGED <<mgrVars, appVars, tool, loop, registry, instr>>

\* the page as first rendered: useRef(null), useState(false)
voiceInit ==
    voice = [connected |-> FALSE, current |-> 0, open |-> {}, created |-> 0,
             clicks |-> 0, calls |-> {}]

sideInit == toolInit /\ loopInit /\ registryInit /\ instrInit /\ voiceInit

Init == mgrInit /\ appInit /\ sideInit

Next ==
    \/ InitializeAll
    \/ \E name \in Targets : InitializeServer(name)
    \/ \E name \in Targets \cap Registered : Initialize(name)
    \/ \E name \in Targets \cap Registered : CreateServer(name)
    \/ ConnectResumes
    \/ InitializerResumes
    \/ AwaitResumes
    \/ ChatResumes
    \/ DisconnectAll
    \/ \E name \in Targets : DisconnectServer(name)
    \/ \E name \in Targets \cap Registered : Disconnect(name)
    \/ CloseResumes
    \/ HandleContext7ConnectionError
    \/ CreateAgent
    \/ ChatStart
    \/ ChatQuit
    \/ \E sig \in Signals : OnSignal(sig)

vars == <<impl, rejects, now, server, transports, serverStatus, statuses, calls, ret,
          weatherApiKey, airQualityApiKey, chat, chatAgent, agent, proc, tool, loop, registry, instr, voice>>

Spec == Init /\ [][Next]_vars

\* the code's own steps are taken when they can be: a call resumes when what
\* it awaits has settled; calls, signals and whether a connect settles at all
\* are the environment's
LiveNext == Next \/ ConnectHangs

\* either version of the manager, as in Spec
LiveInit == Init

LiveSpec ==
    /\ LiveInit /\ [][LiveNext]_vars
    /\ WF_vars(ConnectResumes) /\ WF_vars(CloseResumes) /\ WF_vars(InitializerResumes)
    /\ WF_vars(AwaitResumes) /\ WF_vars(ChatResumes)

\* the direct tools on their own: the keys are drawn at start, a step is an
\* execute() call up to its request, or the request settling
ToolInit == Init /\ impl = "v22" /\ rejects = "Error"

ToolNext ==
    \/ \E t \in ToolNames : ToolExecute(t)
    \/ RequestSettles

ToolSpec == ToolInit /\ [][ToolNext]_vars

\* a chat session from start() to the end of cleanup(): module 06 on its
\* manager, module 05 with the public methods that write its history
LoopInit ==
    /\ mgrInit /\ impl = "v22" /\ rejects = "Error"
    /\ appInit /\ ~weatherApiKey /\ ~airQualityApiKey
    /\ toolInit /\ registryInit /\ instrInit /\ voiceInit
    /\ \E which \in ChatLoops : loop = LoopStart(which)

LoopNext ==
    \/ LoopStarts
    \/ ConnectResumes
    \/ AwaitResumes
    \/ CloseResumes
    \/ LoopStartResumes
    \/ \E input \in Inputs : LoopInput(input)
    \/ \E o \in RunOutcomes : LoopRunSettles(o)
    \/ \E o \in RunOutcomes : LoopStreamSettles(o)
    \/ LoopCleanupResumes
    \/ ClearConversationHistory
    \/ \E role \in HistoryRoles : AddToHistory(role)

LoopSpec == LoopInit /\ [][LoopNext]_vars

RegistryNext ==
    \/ \E id \in ServerIds : AddServer(id)
    \/ \E id \in ServerIds : ConnectServer(id)
    \/ ConnectAll
    \/ \E id \in ServerIds : DisconnectServer05(id)
    \/ DisconnectAll05
    \/ ConnectSettles05
    \/ DisconnectSettles05
    \/ FanOutResumes

\* Context7ServerManager on its own: every step is a call of a method up to
\* its first await, or the resumption of a suspended call
RegistryInit == Init /\ impl = "v22" /\ ~weatherApiKey /\ ~airQualityApiKey

RegistrySpec == RegistryInit /\ [][RegistryNext]_vars

\* the instruction builders on their own: a builder is called, the clock
\* advances, the builder is called again
InstrInit == Init /\ impl = "v22" /\ rejects = "Error" /\ ~weatherApiKey /\ ~airQualityApiKey

InstrNext == BuildFirst \/ BuildAgain \/ ClockTick

InstrSpec == InstrInit /\ [][InstrNext]_vars

\* the voice page on its own: clicks and the settling of its awaits
VoiceInit == Init /\ impl = "v22" /\ rejects = "Error" /\ ~weatherApiKey /\ ~airQualityApiKey

VoiceNext ==
    \/ OnConnectClick
    \/ CloseSettles
    \/ \E o \in AwaitOutcomes : TokenSettles(o)
    \/ \E o \in AwaitOutcomes : ConnectSettles(o)

VoiceSpec == VoiceInit /\ [][VoiceNext]_vars

----------------------------------------------------------------------------
(* Properties                                                              *)

\* initializeAll was the last call to return, and it returned a result
JustReturned == ret.op = "initializeAll" /\ ret.val = "result"

Succeeded(kind) == kind \in {"ok", "already"}

LogIndex == 1..Len(ret.log)

AttemptOf(n, ok) ==
    \E i \in LogIndex : ret.log[i].name = n /\ (Succeeded(ret.log[i].kind) <=> ok)

\* the call named id after the step: still in flight, or the one that returned
After(id) ==
    IF \E d \in calls' : d.id = id THEN CHOOSE d \in calls' : d.id = id ELSE ret'

\* call c, suspended at pc, resumes in this step
Resumes(c, pc) == c.pc = pc /\ c \notin calls' /\ After(c.id).overlapped = c.overlapped

\* MCPServerManager.initializeAll: when it has returned, every registered
\* provider has had its connect attempt, in registration order, whatever
\* happened to the providers before it; connected lists exactly the providers
\* whose attempt succeeded and failed exactly those whose attempt failed
InitializeAllIsolation ==
    ret.op = "initializeAll" =>
        /\ Len(ret.log) = Len(RegisteredNames)
        /\ \A i \in LogIndex : ret.log[i].name = RegisteredNames[i]
        /\ ret.connected = SelectSeq(RegisteredNames, LAMBDA n : AttemptOf(n, TRUE))
        /\ ret.failed = SelectSeq(RegisteredNames, LAMBDA n : AttemptOf(n, FALSE))

\* the attempts of the Context7ServerManager call that returned last that
\* ended as kind did (or otherwise)
Attempts05(kind, is) ==
    Cardinality({i \in 1..Len(registry.last.log) : (registry.last.log[i].kind = kind) <=> is})

\* Context7ServerManager.connectAll: when it has ended, it has returned its
\* result, every stored server has had its connect attempt, in the order of
\* the Map, and the result counts the attempts that succeeded as connected
\* and those that failed as failed
ConnectAllIsolation ==
    registry.last.op = "connectAll" =>
        /\ registry.last.val = "result"
        /\ [i \in 1..Len(registry.last.log) |-> registry.last.log[i].id]
              = [i \in 1..Len(registry.servers) |-> registry.servers[i].id]
        /\ registry.last.connected = Attempts05("ok", TRUE)
        /\ registry.last.failed = Attempts05("ok", FALSE)

\* C1: isolation in a connect-all batch of either manager
\* (MCPServerManager.initializeAll, Context7ServerManager.connectAll): a
\* provider whose connect attempt fails does not keep the providers after it
\* from being attempted in the same batch, and the result tells the
\* providers that connected from those that failed.
C1_Isolation == InitializeAllIsolation /\ ConnectAllIsolation

\* an initializeAll batch in which the first provider failed and the later
\* ones connected
IsolatedBatch ==
    /\ JustReturned
    /\ ret.failed = <<"weather">>
    /\ ret.connected = <<"airQuality", "context7">>

\* C2: initializeAll never lets a connection failure escape as an exception:
\* whatever the outcome of a connect (resolved, rejected, initializer threw),
\* the call that awaited it does not throw, start() does not fail, and a
\* failed attempt is listed in failed with its error and recorded in the
\* manager's statuses.
C2_NeverEscalates ==
    [][/\ chat'.pc # "failed"
       /\ \A c \in calls :
            (c.op = "initializeAll" /\ Resumes(c, "run")) =>
                LET d == After(c.id)
                    i == Len(c.log) + 1
                IN  /\ d.val # "threw"
                    /\ Len(d.log) = i
                    /\ ~Succeeded(d.log[i].kind) =>
                          /\ d.log[i].name \in Elems(d.failed)
                          /\ d.errors[d.log[i].name] # NoError
                          /\ statuses'[d.log[i].name].defined]_vars

\* initializeAll returned although the context7 initializer threw
C2_Witness ==
    /\ JustReturned
    /\ impl = "v22"
    /\ ret.log = <<[name |-> "context7", kind |-> "rejectNull"]>>
    /\ ret.failed = <<"context7">>

\* what C3 says of the manager's statuses for the batch that returned last
StatusesAsAttempted ==
    \A n \in Registered :
        /\ AttemptOf(n, TRUE) =>
             /\ statuses[n].defined
             /\ statuses[n].connected
             /\ statuses[n].lastError = NoError
        /\ AttemptOf(n, FALSE) =>
             /\ statuses[n].defined
             /\ ~statuses[n].connected
             /\ statuses[n].lastError # NoError

\* an initializeAll call returns a result in this step
ConnectAllReturns == ret'.id # ret.id /\ JustReturned'

\* C3: when initializeAll returns, for every registered provider: if its
\* attempt succeeded the manager's status has connected = true and no
\* lastError; if it failed, connected = false and lastError is a non-empty
\* message -- whatever earlier connect or disconnect calls left behind.
C3_StatusAfterConnectAll ==
    [][ConnectAllReturns => StatusesAsAttempted']_vars

\* the same for a batch during which no other call was made or resumed
StatusAfterUndisturbedConnectAll ==
    [][(ConnectAllReturns /\ ~ret'.overlapped) => StatusesAsAttempted']_vars

AnyAgent == {agent, chatAgent}

\* C4: documentation gating.  Whenever the context7 provider is not
\* connected, an agent built by createMCPAgent has documentation = false in
\* its capability set, no context7Server in mcpServers and no documentation
\* block in its instructions.
C4_DocumentationGating ==
    \A a \in AnyAgent :
        (a.built /\ ~serverStatus["context7"].connected) =>
            /\ ~a.capabilities.documentation
            /\ "context7Server" \notin Elems(a.mcpServers)
            /\ "context7Server" \notin Sections(AgentInstructions(a))

\* C5: weather gating.  Without a weather API key the agent of the chat
\* session has weather = false and no weather tool.
C5_WeatherGating ==
    (chatAgent.built /\ ~weatherApiKey) =>
        /\ ~chatAgent.capabilities.weather
        /\ "weatherTool" \notin Elems(chatAgent.tools)

\* call r has returned and connected provider n: initializeServer(n) or the
\* provider's exported initializer returned success, or initializeAll listed
\* n as connected
InitializedOk(r, n) ==
    \/ r.op \in {"initializeServer", "initialize"} /\ r.arg = n /\ r.val = "true"
    \/ r.op = "initializeAll" /\ r.val = "result" /\ n \in Elems(r.connected)

\* the names that have an entry in this.statuses (a Map: one entry a name)
DefinedNames == {n \in AllNames : statuses[n].defined}

\* a call that connected n returns in this step; it was made after the call
\* before it, which connected n too, had returned, and no other call ran
\* while either of the two was in flight
SecondInitializeReturns(n) ==
    /\ InitializedOk(ret, n)
    /\ ~ret.overlapped
    /\ ret'.id # ret.id
    /\ InitializedOk(ret', n)
    /\ ~ret'.overlapped

\* C6: a successful connect of provider n right after a successful connect
\* of n leaves connected = true, sets lastConnected to the time of the second
\* call -- in the provider's own status and, for a call through the manager,
\* in the manager's entry --, leaves the manager's table with at most one
\* entry for each registered provider and does not throw.
C6_IdempotentRefresh ==
    [][\A n \in Registered :
          SecondInitializeReturns(n) =>
              /\ serverStatus'[n].connected
              /\ serverStatus'[n].lastConnected = now'
              /\ ret'.op # "initialize" =>
                    /\ statuses'[n].connected
                    /\ statuses'[n].lastConnected = now'
              /\ DefinedNames' \subseteq Registered
              /\ ret'.val # "threw"]_vars

\* the same with the time each version of the provider leaves: the
\* class-based providers (v21) connect again and store the new time,
\* initializeContext7Server (v22) returns at once when the provider is
\* connected and keeps the time of the first connect
KeepsFirstConnectTime ==
    [][\A n \in Registered :
          SecondInitializeReturns(n) =>
              /\ serverStatus'[n].connected
              /\ serverStatus'[n].lastConnected =
                    (IF impl = "v22" THEN serverStatus[n].lastConnected ELSE now')
              /\ serverStatus'[n].lastConnected # 0
              /\ DefinedNames' \subseteq Registered
              /\ ret'.val # "threw"]_vars

\* the chat session has just started and every connect attempt failed
AllAttemptsFailed ==
    /\ chat.pc = "chatting"
    /\ JustReturned
    /\ ret.by = "chat"
    /\ \A i \in LogIndex : ~Succeeded(ret.log[i].kind)

\* C7: empty environment.  With no API key and no provider reachable,
\* initializeAll returns connected = [], failed = all registered names with
\* an error each, every capability is false and the instructions hold no
\* domain-specific block.
C7_EmptyEnvironment ==
    (~weatherApiKey /\ ~airQualityApiKey /\ AllAttemptsFailed) =>
        /\ ret.connected = <<>>
        /\ ret.failed = RegisteredNames
        /\ \A n \in Registered : ret.errors[n] # NoError
        /\ chatAgent.capabilities = Caps(FALSE, FALSE, FALSE)
        /\ Sections(AgentInstructions(chatAgent)) \cap DomainSections = {}

\* C8: mixed environment.  With the weather key set, the air-quality key
\* absent and context7 connected, the chat agent's capability set is
\* {weather, documentation}, its tools hold the weather tool and not the
\* air-quality tool, and mcpServers holds context7Server.
C8_MixedEnvironment ==
    (/\ weatherApiKey /\ ~airQualityApiKey
     /\ chat.pc = "chatting" /\ JustReturned /\ ret.by = "chat"
     /\ "context7" \in Elems(ret.connected)) =>
        /\ chatAgent.capabilities = Caps(TRUE, FALSE, TRUE)
        /\ "weatherTool" \in Elems(chatAgent.tools)
        /\ "airQualityTool" \notin Elems(chatAgent.tools)
        /\ "context7Server" \in Elems(chatAgent.mcpServers)

\* C9: graceful shutdown.  When the process has exited on SIGINT or SIGTERM
\* the exit code is 0 and no provider is left connected.
C9_GracefulShutdown ==
    (proc.state = "exited" /\ proc.by \in Signals) =>
        /\ proc.code = 0
        /\ \A n \in Registered : ~serverStatus[n].connected

\* an initializeAll call is in flight
ConnectAllInFlight == \E c \in calls : c.op = "initializeAll"

\* C10: bounded connect.  An initializeAll call in progress eventually
\* returns (unless the process is terminated), even when a provider never
\* answers its connect.
C10_ConnectAllReturns ==
    ConnectAllInFlight ~> (~ConnectAllInFlight \/ proc.state = "exited")

\* a tool call has returned
ToolCalled == tool.last.name # "none"

\* the request of the last tool call succeeded: a 2xx response with the
\* provider's complete JSON
RequestSucceeded == tool.last.http.kind = "response" /\ tool.last.http.body = "valid"

\* C11: a failing request is never thrown out of a direct tool.  For every
\* outcome of the HTTP call (network error, timeout, 4xx/5xx status,
\* malformed body) execute returns an object with an error field and no
\* success flag; it returns a success object only when the request succeeded.
C11_ErrorResult ==
    ToolCalled =>
        /\ ~tool.last.result.threw
        /\ (tool.last.requested /\ ~RequestSucceeded) =>
              (tool.last.result.error # "" /\ ~tool.last.result.success)
        /\ tool.last.result.success => RequestSucceeded

LocationNotFoundResults == {LOCATION_NOT_FOUND} \cup {WeatherLocationNotFound(l) : l \in Locations}

FetchErrorResults == {FETCH_ERROR, WEATHER_FETCH_ERROR}

\* C12: error mapping of a direct tool.  HTTP 404 gives the location-not-found
\* result, HTTP 401 the invalid-credential result, a network error or a
\* timeout the fetch-error result, and any other failure the generic failure
\* with the raw error message in details.
C12_ErrorMapping ==
    (ToolCalled /\ tool.last.requested /\ tool.last.http.kind # "response") =>
        /\ tool.last.http.status = 404 =>
              (tool.last.result.error \in LocationNotFoundResults /\ tool.last.result.suggestion # "")
        /\ tool.last.http.status = 401 =>
              (tool.last.result.error = WEATHER_API_INVALID /\ tool.last.result.instructions # "")
        /\ tool.last.http.kind \in {"network", "timeout"} =>
              tool.last.result.error \in FetchErrorResults
        /\ tool.last.http.status \in HttpErrorStatuses \ {401, 404} =>
              (tool.last.result.error \in FetchErrorResults /\ tool.last.result.details = tool.last.http.message)

\* C13: a missing credential never crashes a tool call.  When the API key of
\* the tool is absent, execute returns the key-missing explanation together
\* with the instructions for obtaining a key, and no HTTP request is made.
C13_MissingKey ==
    (ToolCalled /\ ~ToolApiKey(tool.last.name)) =>
        /\ ~tool.last.result.threw
        /\ ~tool.last.result.success
        /\ tool.last.result.error =
              (IF tool.last.name = "airQualityTool" THEN AIR_QUALITY_API_KEY_MISSING
                                               ELSE WEATHER_API_KEY_MISSING)
        /\ tool.last.result.instructions =
              (IF tool.last.name = "airQualityTool" THEN AIR_QUALITY_API_KEY_INSTRUCTIONS
                                               ELSE WEATHER_API_KEY_INSTRUCTIONS)
        /\ ~tool.last.requested
        /\ tool.last.http = NoHttp

\* the air-quality tool was called without its key while the weather key is set
C13_Witness ==
    /\ tool.last.name = "airQualityTool"
    /\ ~airQualityApiKey /\ weatherApiKey
    /\ tool.last.result.error = AIR_QUALITY_API_KEY_MISSING
    /\ ~tool.last.requested

\* C14: an error raised while a user turn is processed never terminates the
\* chat session: it is caught, reported, and the loop is back at its prompt;
\* the loop ends only on a quit command.
C14_LoopContinues ==
    /\ loop.pc \notin {"crashed", "stalled"}
    /\ (loop.settled \notin {"none", "ok"}) => (loop.pc = "prompt" /\ loop.reported # "none")
    /\ loop.pc = "ended" => isQuitCommand(loop.which, loop.input)

Unique(seq) == \A i, j \in 1..Len(seq) : seq[i] = seq[j] => i = j

\* Context7ServerManager: after addServer calls with unique ids,
\* getAllServers() holds exactly the added ids, in order, and an entry is
\* connected only if a connectServer on it succeeded
Context7ListAll ==
    Unique(registry.added) =>
        LET all == getAllServers(registry)
        IN  /\ [i \in 1..Len(all) |-> all[i].id] = registry.added
            /\ \A i \in 1..Len(all) : all[i].connected => all[i].id \in registry.succeeded

\* C15: listing all providers returns exactly the registered providers, each
\* with connected = false until a connect attempt on it succeeded -- for
\* Context7ServerManager.getAllServers() after addServer calls with unique
\* names, and for MCPServerManager.getAllServerStatuses() after the
\* registrations of its constructor.
C15_ListAll ==
    /\ Context7ListAll
    /\ DefinedNames = Registered
    /\ \A n \in Registered : statuses[n].connected => statuses[n].lastConnected # 0

\* C16: addServer under a name that is already present fails with a
\* duplicate-provider error and leaves the entry, its server handle and its
\* connection status as they were.
C16_DuplicateRefused ==
    [][\A id \in ServerIds :
          (AddServer(id) /\ id \in Ids(registry.servers)) =>
              /\ registry'.last.val = "threw"
              /\ registry'.servers = registry.servers
              /\ registry'.connectionStatus = registry.connectionStatus]_vars

\* what C17 names: the capability set, the server statuses and the history
SameNamedInputs(i, j) ==
    /\ i.capabilities = j.capabilities
    /\ i.mcpServers = j.mcpServers
    /\ i.history = j.history

\* the arguments of the variant that are not part of the context's
\* capability set, statuses and history
SameOwnArguments(i, j) ==
    /\ i.variant = "debug" => i.userQuery = j.userQuery
    /\ i.variant = "contextual" => i.queryAnalysis = j.queryAnalysis
    /\ i.variant = "contextAware" => i.type = j.type
    /\ i.variant = "adaptive" => i.query = j.query

C18_ReadsAgree ==
    \A n \in Registered :
        LET byStatus == getServerStatus(n).defined /\ getServerStatus(n).connected
            byAll    == n \in DOMAIN getAllServerStatuses /\ getAllServerStatuses[n].connected
            byList   == n \in getConnectedServers
            byCheck  == isServerConnected(n)
            own      == serverStatus[n].connected
        IN  /\ byStatus = byAll
            /\ byAll = byList
            /\ byList = byCheck
            /\ byCheck = own

\* capabilities of the ConversationContext that processUserMessage builds
\* for a turn
TurnCapabilities ==
    Caps(TRUE, TRUE,
         chat.serverStatuses["context7"].defined /\ chat.serverStatuses["context7"].connected)

\* C19: capability resolution is not cached.  Whenever the context7 provider
\* is not connected -- also when it disconnected or failed after the agent
\* was created -- the instructions computed for an agent hold no
\* documentation block and the capabilities of the chat session's next turn
\* have documentation = false.
C19_NoCaching ==
    ~serverStatus["context7"].connected =>
        /\ \A a \in AnyAgent :
              a.built => "context7Server" \notin Sections(AgentInstructions(a))
        /\ (chat.pc = "chatting" /\ chatAgent.built) => ~TurnCapabilities.documentation

InitializeOps == {"initializeAll", "initializeServer", "initialize"}

\* the step belongs to an explicit initialize call on provider n: the
\* connect() it awaited on n has settled and the initializer resumes, or the
\* initializer has returned and the manager resumes
ConnectStepFor(n) ==
    \E c \in calls :
        /\ c.op \in InitializeOps
        /\ c.name = n
        /\ Resumes(c, "connect") \/ Resumes(c, "run")

\* C20: no automatic retry or reconnection.  The connected flag of a provider
\* (its own and the manager's) goes from false to true only in a step of an
\* explicit initialize call on that provider.
C20_NoAutoRetry ==
    [][\A n \in AllNames :
          (\/ ~serverStatus[n].connected /\ serverStatus'[n].connected
           \/ ~statuses[n].connected /\ statuses'[n].connected) => ConnectStepFor(n)]_vars

\* a connection error was reported on a provider that had been connected, and
\* it is left disconnected
C20_Witness ==
    /\ ret.op = "handleContext7ConnectionError"
    /\ serverStatus["context7"].lastConnected # 0
    /\ ~serverStatus["context7"].connected
    /\ serverStatus["context7"].lastError # NoError

DisconnectOps == {"disconnectAll", "disconnectServer", "disconnect"}

\* in this step the close() awaited by the disconnect of call c settles and
\* the disconnect hands `success` to the manager or to the caller
CloseReturns(c, success) ==
    /\ c.op \in DisconnectOps
    /\ Resumes(c, "close")
    /\ IF c.op = "disconnect" THEN After(c.id).val \in success
                              ELSE After(c.id).success \in success

\* in this step a disconnect call of the manager resumes after the
\* provider's disconnect, which closed an instance, handed it `success`
ManagerResumes(c, success) ==
    /\ c.op \in {"disconnectAll", "disconnectServer"}
    /\ Resumes(c, "run")
    /\ c.target # 0
    /\ c.success \in success

\* a connect attempt on provider n would call connect() and, if connect()
\* resolves, leave n connected
CanReconnect(n) ==
    LET o == [kind |-> "ok", msg |-> NoError]
    IN  /\ ~SkipsConnect(serverStatus[n])
        /\ OwnStatusAfter(serverStatus[n], o, now).connected
        /\ Initializer(n, o).connected

\* C21: a disconnect of a connected provider that reports success leaves
\* connected = false in the provider's own record and in the manager's
\* table, and a later connect attempt can connect the provider again.
C21_DisconnectReturns ==
    [][\A c \in calls :
         /\ (CloseReturns(c, {"true"}) /\ serverStatus[c.name].connected)
               => /\ ~serverStatus'[c.name].connected
                  /\ CanReconnect(c.name)'
                  /\ c.op = "disconnect" => ~statuses'[c.name].connected
         /\ ManagerResumes(c, {"true"}) => ~statuses'[c.name].connected]_vars

\* the same, of the disconnects made through the manager
ManagerDisconnectReturns ==
    [][\A c \in calls :
         /\ (CloseReturns(c, {"true"}) /\ serverStatus[c.name].connected)
               => /\ ~serverStatus'[c.name].connected
                  /\ CanReconnect(c.name)'
         /\ ManagerResumes(c, {"true"})
               => /\ ~statuses'[c.name].connected
                  /\ \/ c.name \in Elems(After(c.id).disconnected)
                     \/ After(c.id).val = "true"]_vars

\* MCPServerManager.disconnectAll() of module 06 (both versions) returns a
\* result in which every registered provider is disconnected or failed
DisconnectAllFansOut ==
    ret.op = "disconnectAll"
        => /\ ret.val = "result"
           /\ Elems(ret.disconnected) \cup Elems(ret.failed) = Registered
           /\ Elems(ret.disconnected) \cap Elems(ret.failed) = {}

\* C22: disconnectAll attempts the disconnect of every registered provider
\* whatever the outcome of the others, and never throws.
C22_FanOutWithoutAbort ==
    registry.last.op = "disconnectAll"
        => /\ registry.last.val = "result"
           /\ registry.last.disconnected + registry.last.failed = Len(registry.servers)

\* C23: when a chat session ends through a quit command, disconnectAll has
\* been called and has returned before start() resolves, and no provider
\* that the session connected is still connected.
C23_SessionTeardown ==
    [][(chat.pc \in {"chatting", "cleanup"} /\ chat'.pc = "ended")
          => /\ \E c \in calls :
                    /\ c \notin calls'
                    /\ c.pc = "chat" /\ c.op = "disconnectAll" /\ c.val = "result"
             /\ \A n \in Elems(chat.mcpServersConnected) :
                    /\ ~serverStatus'[n].connected
                    /\ ~statuses'[n].connected]_vars

\* the entries of h pushed by turns of the loop
TurnEntries(h) == SelectSeq(h, LAMBDA e : e.turn # 0)

\* the entries of the turns are grouped by turn, turns in ascending order,
\* the user entry of a turn before its assistant entry
HistoryInTurnOrder(h) ==
    LET e == TurnEntries(h)
    IN  \A i, j \in 1..Len(e) :
            i < j => \/ e[i].turn < e[j].turn
                     \/ e[i].turn = e[j].turn /\ e[i].role = "user" /\ e[j].role = "assistant"

\* C24: turns are processed one at a time: at most one agent run of the
\* session is in flight, no input is accepted while it is, and the history
\* entries of different turns never interleave.
C24_OneTurnAtATime ==
    /\ Cardinality(loop.runs) <= 1
    /\ loop.runs # {} => ~AcceptsInput(loop)
    /\ HistoryInTurnOrder(loop.history)

\* two turns have been processed to the end, one after the other
C24_Witness ==
    /\ loop.turns = 2
    /\ loop.runs = {}
    /\ Len(loop.history) = 4
    /\ loop.history[2] = HistoryEntry("assistant", 1)
    /\ loop.history[3] = HistoryEntry("user", 2)

\* what the builder returns for the same context without a history
BaseOf(input) == Build([input EXCEPT !.history = <<>>])

\* the output is the base text followed by the heading and the most recent
\* MAX_CONVERSATION_HISTORY entries of the history, verbatim and in order
EndsWithRecentHistory(output, input) ==
    LET tail == SliceLast(input.history, MAX_CONVERSATION_HISTORY)
        base == BaseOf(input)
    IN  /\ Len(output) = Len(base) + 1 + Len(tail)
        /\ SubSeq(output, 1, Len(base)) = base
        /\ SubSeq(output, Len(base) + 2, Len(output)) = tail

\* the builders of module 05 append the bounded tail of a supplied history
BoundedTail05 ==
    (instr.first.done /\ instr.first.input.module = "05")
        => IF instr.first.input.history = <<>>
           THEN instr.first.output = BaseOf(instr.first.input)
           ELSE EndsWithRecentHistory(instr.first.output, instr.first.input)

\* C25: with a prior-turn history the instructions end with exactly its most
\* recent MAX_CONVERSATION_HISTORY entries, verbatim and in order; with an
\* empty history they are the base text alone.
C25_BoundedTail ==
    instr.first.done
        => IF instr.first.input.history = <<>>
           THEN instr.first.output = BaseOf(instr.first.input)
           ELSE EndsWithRecentHistory(instr.first.output, instr.first.input)

\* seq lists members of RegisteredNames, each once, in registration order
InRegistrationOrder(seq) ==
    seq = SelectSeq(RegisteredNames, LAMBDA n : n \in Elems(seq))

\* C26: the result of initializeAll partitions the registered providers:
\* every registered name is in exactly one of connected and failed, in
\* registration order, no other name appears, and every key of errors is
\* in failed.
C26_ResultPartition ==
    JustReturned
        => /\ Elems(ret.connected) \cup Elems(ret.failed) = Registered
           /\ Elems(ret.connected) \cap Elems(ret.failed) = {}
           /\ InRegistrationOrder(ret.connected)
           /\ InRegistrationOrder(ret.failed)
           /\ {n \in AllNames : ret.errors[n] # NoError} \subseteq Elems(ret.failed)

\* a batch over three providers returned with some connected, some failed
\* and an error recorded
C26_Witness ==
    /\ JustReturned
    /\ Len(ret.connected) = 2
    /\ Len(ret.failed) = 1
    /\ \E n \in Elems(ret.failed) : ret.errors[n] # NoError

\* C27: no duplicate connections: at most one transport of each provider is
\* open at any time, after any sequence of initialize and disconnect calls.
C27_NoDuplicateConnections ==
    \A n \in AllNames : OpenTransports(n) <= 1

\* the handle that call c closes is still the one the provider holds
StillHeld(c) == impl = "v22" \/ server[c.name] = c.target

Failure == {"false", "threw"}

\* C28: a failed disconnect leaves state unchanged: when close() throws for
\* a connected provider, its own record and the manager's entry are as
\* before, with connected = true, the handle and the transports stay as they
\* were and a later disconnect would call close() again; when the manager
\* resumes, the provider is reported as failed and not as disconnected, and
\* both records stay as they are.
C28_FailedDisconnect ==
    [][\A c \in calls :
         /\ (/\ CloseReturns(c, Failure)
             /\ serverStatus[c.name].connected /\ statuses[c.name].connected)
               => /\ serverStatus'[c.name] = serverStatus[c.name]
                  /\ statuses'[c.name] = statuses[c.name]
                  /\ server'[c.name] = server[c.name]
                  /\ transports'[c.name] = transports[c.name]
                  /\ StillHeld(c) => CloseAttempted(Heap, c.name)'
         /\ ManagerResumes(c, Failure)
               => /\ serverStatus'[c.name] = serverStatus[c.name]
                  /\ statuses'[c.name] = statuses[c.name]
                  /\ c.name \notin Elems(After(c.id).disconnected)
                  /\ \/ c.name \in Elems(After(c.id).failed)
                     \/ After(c.id).val = "false"]_vars

\* the last disconnect call reported a failure for provider n
DisconnectFailedFor(n) ==
    \/ ret.op \in {"disconnectServer", "disconnect"} /\ ret.arg = n /\ ret.val \in {"false", "threw"}
    \/ ret.op = "disconnectAll" /\ n \in Elems(ret.failed)

\* close() has just thrown for a provider connected by the call before
C28_Witness ==
    \E n \in Registered :
        /\ DisconnectFailedFor(n)
        /\ ret.id = now
        /\ serverStatus[n].connected
        /\ statuses[n].connected
        /\ serverStatus[n].lastConnected = now - 1

\* the number of entries of h written by role
CountRole(h, role) == Cardinality({i \in 1..Len(h) : h[i].role = role})

\* C29 as stated: the history is append-only and ordered by turn: a turn
\* appends one user entry when its run starts, an assistant entry is appended
\* only when that run has succeeded, an empty input changes nothing and
\* starts no run; assistant entries never outnumber user entries.
C29_HistoryAppendOnlyAsStated ==
    [][LET h == loop.history
           g == loop'.history
       IN  /\ Len(g) \in {Len(h), Len(h) + 1}
           /\ SubSeq(g, 1, Len(h)) = h
           /\ loop'.turns # loop.turns
                => /\ ~isQuitCommand(loop.which, loop'.input)
                   /\ ~IsEmptyInput(loop'.input)
                   /\ g = Append(h, HistoryEntry("user", loop'.turns))
                   /\ loop'.runs = loop.runs \cup {loop'.turns}
           /\ (Len(g) > Len(h) /\ g[Len(g)].role = "assistant")
                => /\ loop'.settled = "ok"
                   /\ g[Len(g)].turn \in loop.runs \ loop'.runs
                   /\ HistoryEntry("user", g[Len(g)].turn) \in Elems(h)
           /\ (loop.pc = "prompt" /\ IsEmptyInput(loop'.input) /\ loop'.settled = "none")
                => (g = h /\ loop'.runs = loop.runs /\ loop'.turns = loop.turns)
           /\ (loop.pc = "prompt" /\ loop'.pc = "cleanup")
                => (g = h /\ loop'.runs = loop.runs)
           /\ CountRole(g, "assistant") <= CountRole(g, "user")]_vars

\* C29: what the loop does to the history, and who else writes it.  A step
\* of the loop only appends: a turn appends one user entry when its run
\* starts, an assistant entry is appended only when the run (and the streamed
\* response of module 05) has succeeded, an empty input and a quit command
\* change nothing and start no run.  In MCPChatInterface nothing else writes
\* the history.  In module 05 clearConversationHistory() empties it and
\* addToHistory() appends an entry of any role, at any time; until one of
\* them is called the history holds the user entry of every assistant entry
\* and assistant entries never outnumber user entries.
C29_HistoryAppendOnly ==
    [][LET h == loop.history
           g == loop'.history
       IN  /\ loop'.edits = loop.edits
                => /\ Len(g) \in {Len(h), Len(h) + 1}
                   /\ SubSeq(g, 1, Len(h)) = h
           /\ loop'.turns # loop.turns
                => /\ ~isQuitCommand(loop.which, loop'.input)
                   /\ ~IsEmptyInput(loop'.input)
                   /\ g = Append(h, HistoryEntry("user", loop'.turns))
                   /\ loop'.runs = loop.runs \cup {loop'.turns}
           /\ (loop'.edits = loop.edits /\ Len(g) > Len(h) /\ g[Len(g)].role = "assistant")
                => /\ loop'.settled = "ok"
                   /\ g[Len(g)].turn \in loop.runs \ loop'.runs
                   /\ loop.edits = 0 => HistoryEntry("user", g[Len(g)].turn) \in Elems(h)
           /\ (loop'.edits = loop.edits /\ loop.pc = "prompt"
                  /\ IsEmptyInput(loop'.input) /\ loop'.settled = "none")
                => (g = h /\ loop'.runs = loop.runs /\ loop'.turns = loop.turns)
           /\ (loop.pc = "prompt" /\ loop'.pc = "cleanup")
                => (g = h /\ loop'.runs = loop.runs)
           /\ loop'.edits # loop.edits
                => /\ loop.which = "ChatLoop"
                   /\ g = <<>> \/ \E role \in HistoryRoles : g = Append(h, HistoryEntry(role, 0))
                   /\ loop'.runs = loop.runs /\ loop'.turns = loop.turns
                   /\ loop'.pc = loop.pc
           /\ loop'.edits = 0 => CountRole(g, "assistant") <= CountRole(g, "user")]_vars

\* module 05: the first turn failed, the history was cleared while the run
\* of the second turn was awaited, and that run succeeded: the history holds
\* the assistant entry of the second turn alone
C29_Witness ==
    /\ loop.which = "ChatLoop"
    /\ loop.turns = 2
    /\ loop.edits = 1
    /\ loop.history = <<HistoryEntry("assistant", 2)>>
    /\ loop.settled = "ok"

\* C30: on the voice page at most one RealtimeSession is open at a time,
\* under any interleaving of onConnect invocations, and connected is true
\* only while the session held in session.current is connected.
C30_SingleSession ==
    /\ Cardinality(voice.open) <= 1
    /\ voice.connected => voice.current \in voice.open

====
